---------------------------- MODULE Spec2Model ----------------------------
(***************************************************************************)
(* yash: the job-control engine of src/unnamed/part_000 (the final shape   *)
(* of the shell; src/yash.c holds the earlier drafts).                     *)
(*                                                                         *)
(* The shell is one sequential process (pc is its position in main and in  *)
(* the functions main calls).  Its children, the kernel's process table    *)
(* and the controlling terminal are the environment: they move between     *)
(* the shell's system calls.                                               *)
(***************************************************************************)
EXTENDS Integers, Sequences, FiniteSets, TLC

\* ------------------------------------------------------------------ bounds
\* number of fork() calls of the shell over one run (one job record each)
MaxLaunches == 2
\* size of the kernel's pid space for the shell's children
MaxPid == 2

\* ------------------------------------------------------- program constants
FG_JOB_NUM == -1
NULL == 0
SUCCESS == 1
COMMAND_PROCESSING_ERROR == -1

INPUT_REDIRECT == <<"<">>
OUTPUT_REDIRECT == <<">">>
ERROR_REDIRECT == <<"2", ">">>
PIPE == <<"|">>
SEND_TO_BACKGROUND == <<"&">>
FOREGROUND == <<"f", "g">>
BACKGROUND == <<"b", "g">>
JOBS == <<"j", "o", "b", "s">>
COMMAND_DELIMETER == {" ", "\t"}

\* enum job_status
JobStatus == {"RUNNING", "STOPPED", "DONE"}

\* the pids the kernel hands to the shell's children, and the shell's own
Pids == 1 .. MaxPid
shell_pid == MaxPid + 1
\* job records are malloc'ed one per launch; an address is never reused
Addrs == 1 .. MaxLaunches

\* ------------------------------------------------------------- tokenizer
\* strtok(command, " \t") repeated: the maximal runs of non-delimiters
RECURSIVE Tokens(_, _, _)
Tokens(s, i, cur) ==
    IF i > Len(s)
    THEN IF cur = <<>> THEN <<>> ELSE <<cur>>
    ELSE IF s[i] \in COMMAND_DELIMETER
         THEN IF cur = <<>>
              THEN Tokens(s, i + 1, <<>>)
              ELSE <<cur>> \o Tokens(s, i + 1, <<>>)
         ELSE Tokens(s, i + 1, Append(cur, s[i]))

parse_command(command) == Tokens(command, 1, <<>>)

\* ---------------------------------------------------------------- parser
\* memset(process, 0, sizeof(process_t)): argv is an array of NULLs; here a
\* function from the indices written so far, every other index is NULL
EmptyProcess ==
    [argv |-> << >>,
     redirect_input_filename |-> <<>>,
     redirect_output_filename |-> <<>>,
     redirect_error_filename |-> <<>>]

\* process->argv[k] = w, k counted from 0 as in the code
SetArgv(argv, k, w) ==
    [j \in (DOMAIN argv) \cup {k} |-> IF j = k THEN w ELSE argv[j]]

\* what execvp sees: argv[0], argv[1], ... up to the first NULL
RECURSIVE ExecArgvFrom(_, _)
ExecArgvFrom(argv, k) ==
    IF k \in DOMAIN argv THEN <<argv[k]>> \o ExecArgvFrom(argv, k + 1) ELSE <<>>

ExecArgv(process) == ExecArgvFrom(process.argv, 0)

\* the while loop of process_input; st holds the locals and the job's fields
RECURSIVE ProcessInputLoop(_, _)
ProcessInputLoop(tok, st) ==
    IF ~(st.ind < Len(tok)) THEN st
    ELSE LET t == tok[st.ind + 1]
             edge == (st.argv_ind = 0) \/ (st.ind + 1 = Len(tok))
             step(s) == [s EXCEPT !.ind = s.ind + 1, !.argv_ind = s.argv_ind + 1]
         IN  IF t = INPUT_REDIRECT
             THEN IF edge THEN [st EXCEPT !.err = TRUE]
                  ELSE ProcessInputLoop(tok, step(
                         [st EXCEPT !.process.redirect_input_filename = tok[st.ind + 2],
                                    !.ind = st.ind + 1]))
             ELSE IF t = OUTPUT_REDIRECT
             THEN IF edge THEN [st EXCEPT !.err = TRUE]
                  ELSE ProcessInputLoop(tok, step(
                         [st EXCEPT !.process.redirect_output_filename = tok[st.ind + 2],
                                    !.ind = st.ind + 1]))
             ELSE IF t = ERROR_REDIRECT
             THEN IF edge THEN [st EXCEPT !.err = TRUE]
                  ELSE ProcessInputLoop(tok, step(
                         [st EXCEPT !.process.redirect_error_filename = tok[st.ind + 2],
                                    !.ind = st.ind + 1]))
             ELSE IF t = PIPE
             THEN IF edge THEN [st EXCEPT !.err = TRUE]
                  ELSE ProcessInputLoop(tok, step(
                         [st EXCEPT !.first_process = <<st.process>>,
                                    !.process = EmptyProcess,
                                    !.argv_ind = -1,
                                    !.creating_second_process = TRUE]))
             ELSE IF t = SEND_TO_BACKGROUND
             THEN IF (st.ind = 0) \/ (st.ind + 1 < Len(tok))
                  THEN [st EXCEPT !.err = TRUE]
                  ELSE ProcessInputLoop(tok, step([st EXCEPT !.background = 1]))
             ELSE ProcessInputLoop(tok, step(
                    [st EXCEPT !.process.argv = SetArgv(st.process.argv, st.argv_ind, t)]))

\* process_input: status is SUCCESS or COMMAND_PROCESSING_ERROR; a process
\* pointer is a sequence of length 0 (NULL) or 1 (the process it points to)
process_input(tok) ==
    LET st == ProcessInputLoop(tok,
                [ind |-> 0, argv_ind |-> 0, creating_second_process |-> FALSE,
                 process |-> EmptyProcess, first_process |-> <<>>,
                 second_process |-> <<>>, background |-> 0, err |-> FALSE])
    IN  IF st.err
        THEN [status |-> COMMAND_PROCESSING_ERROR, first_process |-> st.first_process,
              second_process |-> <<>>, background |-> st.background]
        ELSE IF ~st.creating_second_process
        THEN [status |-> SUCCESS, first_process |-> <<st.process>>,
              second_process |-> <<>>, background |-> st.background]
        ELSE [status |-> SUCCESS, first_process |-> st.first_process,
              second_process |-> <<st.process>>, background |-> st.background]


\* ------------------------------------------------------- job linked list
\* A table is job_list_head plus the heap of job_t records (heap is a function
\* from the live addresses).  The code walks next pointers; a walk over a
\* cyclic list never reaches NULL, which is the shell spinning forever.
Range(f) == {f[x] : x \in DOMAIN f}

RECURSIVE WalkFrom(_, _, _)
WalkFrom(heap, a, seen) ==
    IF a = NULL \/ a \in Range(seen) THEN seen
    ELSE WalkFrom(heap, heap[a].next, Append(seen, a))

\* the nodes in the order a traversal from the head meets them
Walk(head, heap) == WalkFrom(heap, head, <<>>)

\* curr never becomes NULL
Cyclic(head, heap) ==
    LET w == Walk(head, heap)
    IN  w # <<>> /\ heap[w[Len(w)]].next # NULL

\* index in the walk of the first node with this pgid, 0 when the walk has none
FirstWithPgid(head, heap, pgid) ==
    LET w == Walk(head, heap)
        hits == {i \in 1 .. Len(w) : heap[w[i]].pgid = pgid}
    IN  IF hits = {} THEN 0 ELSE CHOOSE i \in hits : \A j \in hits : i <= j

\* find_job: the first job with the pgid, NULL when the list ends without
\* one; on a cyclic list without one the loop does not end (FindJobHangs)
find_job(head, heap, pgid) ==
    LET i == FirstWithPgid(head, heap, pgid)
    IN  IF i = 0 THEN NULL ELSE Walk(head, heap)[i]

FindJobHangs(head, heap, pgid) ==
    FirstWithPgid(head, heap, pgid) = 0 /\ Cyclic(head, heap)

\* add_job: link the job behind the last node; job->next is left as it is
add_job(head, heap, job) ==
    LET w == Walk(head, heap)
    IN  IF head = NULL
        THEN [head |-> job, heap |-> heap]
        ELSE [head |-> head,
              heap |-> [heap EXCEPT ![w[Len(w)]].next = job]]

\* remove_job(pgid, 0): unlink the first job with the pgid; the job is not
\* freed and its own next pointer is not cleared
remove_job(head, heap, pgid) ==
    LET w == Walk(head, heap)
        i == FirstWithPgid(head, heap, pgid)
    IN  IF i = 0 THEN [head |-> head, heap |-> heap]
        ELSE IF i = 1 THEN [head |-> heap[w[1]].next, heap |-> heap]
        ELSE [head |-> head,
              heap |-> [heap EXCEPT ![w[i - 1]].next = heap[w[i]].next]]

\* find_most_recent_job_num on a list that ends: the largest job_number over
\* the jobs whose background flag is set, 0 when there is none
RECURSIVE MostRecentFrom(_, _, _, _)
MostRecentFrom(heap, w, i, recent_job_num) ==
    IF i > Len(w) THEN recent_job_num
    ELSE MostRecentFrom(heap, w, i + 1,
            IF heap[w[i]].job_number > recent_job_num /\ heap[w[i]].background # 0
            THEN heap[w[i]].job_number ELSE recent_job_num)

\* a count that passes over the Done jobs of the table
find_most_recent_live_job_num(head, heap) ==
    LET w == Walk(head, heap)
        S == {heap[w[i]].job_number :
                i \in {k \in 1 .. Len(w) : /\ heap[w[k]].background # 0
                                           /\ heap[w[k]].status # "DONE"
                                           /\ heap[w[k]].job_number > 0}}
    IN  IF S = {} THEN 0 ELSE CHOOSE m \in S : \A n \in S : n <= m

find_most_recent_job_num(head, heap) ==
    MostRecentFrom(heap, Walk(head, heap), 1, 0)

\* remove_done_jobs on a list that ends: every DONE node is unlinked and
\* freed, the others stay linked in their order
RECURSIVE KeepNotDone(_, _)
KeepNotDone(heap, w) ==
    IF w = <<>> THEN <<>>
    ELSE IF heap[Head(w)].status = "DONE" THEN KeepNotDone(heap, Tail(w))
         ELSE <<Head(w)>> \o KeepNotDone(heap, Tail(w))

\* remove_done_jobs that steps over the node behind a node it has freed: of
\* two DONE nodes in a row the second stays
RECURSIVE KeepAfterFreed(_, _)
KeepAfterFreed(heap, w) ==
    IF w = <<>> THEN <<>>
    ELSE IF heap[Head(w)].status = "DONE"
         THEN IF Len(w) = 1 THEN <<>>
              ELSE <<w[2]>> \o KeepAfterFreed(heap, Tail(Tail(w)))
         ELSE <<Head(w)>> \o KeepAfterFreed(heap, Tail(w))

remove_done_jobs_skipping(head, heap) ==
    LET w == Walk(head, heap)
        k == KeepAfterFreed(heap, w)
        gone == Range(w) \ Range(k)
        pos(a) == CHOOSE i \in 1 .. Len(k) : k[i] = a
    IN  [head |-> IF k = <<>> THEN NULL ELSE k[1],
         heap |-> [a \in (DOMAIN heap) \ gone |->
                     IF a \in Range(k)
                     THEN [heap[a] EXCEPT !.next =
                             IF pos(a) = Len(k) THEN NULL ELSE k[pos(a) + 1]]
                     ELSE heap[a]],
         freed |-> [i \in 1 .. Cardinality(gone) |->
                      LET dn == SelectSeq(w, LAMBDA a : a \in gone)
                      IN  [ev |-> "free", job |-> dn[i]]]]

\* remove_done_jobs that frees every job that is not RUNNING
RECURSIVE KeepRunning(_, _)
KeepRunning(heap, w) ==
    IF w = <<>> THEN <<>>
    ELSE IF heap[Head(w)].status # "RUNNING" THEN KeepRunning(heap, Tail(w))
         ELSE <<Head(w)>> \o KeepRunning(heap, Tail(w))

remove_done_jobs_and_stopped(head, heap) ==
    LET w == Walk(head, heap)
        k == KeepRunning(heap, w)
        gone == Range(w) \ Range(k)
        pos(a) == CHOOSE i \in 1 .. Len(k) : k[i] = a
    IN  [head |-> IF k = <<>> THEN NULL ELSE k[1],
         heap |-> [a \in (DOMAIN heap) \ gone |->
                     IF a \in Range(k)
                     THEN [heap[a] EXCEPT !.next =
                             IF pos(a) = Len(k) THEN NULL ELSE k[pos(a) + 1]]
                     ELSE heap[a]],
         freed |-> [i \in 1 .. Cardinality(gone) |->
                      LET dn == SelectSeq(w, LAMBDA a : a \in gone)
                      IN  [ev |-> "free", job |-> dn[i]]]]

remove_done_jobs(head, heap) ==
    LET w == Walk(head, heap)
        k == KeepNotDone(heap, w)
        gone == Range(w) \ Range(k)
        pos(a) == CHOOSE i \in 1 .. Len(k) : k[i] = a
    IN  [head |-> IF k = <<>> THEN NULL ELSE k[1],
         heap |-> [a \in (DOMAIN heap) \ gone |->
                     IF a \in Range(k)
                     THEN [heap[a] EXCEPT !.next =
                             IF pos(a) = Len(k) THEN NULL ELSE k[pos(a) + 1]]
                     ELSE heap[a]],
         freed |-> [i \in 1 .. Cardinality(gone) |->
                      LET dn == SelectSeq(w, LAMBDA a : a \in gone)
                      IN  [ev |-> "free", job |-> dn[i]]]]

\* find_next_job_to_fg / find_next_job_to_bg on a list that ends
find_next_job_to_fg(head, heap) ==
    LET w == Walk(head, heap)
        c == {i \in 1 .. Len(w) : heap[w[i]].status # "DONE"}
    IN  IF c = {} THEN NULL ELSE w[CHOOSE i \in c : \A j \in c : j <= i]

\* a search that stops at the first Stopped background job of the table
find_first_job_to_bg(head, heap) ==
    LET w == Walk(head, heap)
        c == {i \in 1 .. Len(w) :
                heap[w[i]].background # 0 /\ heap[w[i]].status = "STOPPED"}
    IN  IF c = {} THEN NULL ELSE w[CHOOSE i \in c : \A j \in c : i <= j]

find_next_job_to_bg(head, heap) ==
    LET w == Walk(head, heap)
        c == {i \in 1 .. Len(w) :
                heap[w[i]].background # 0 /\ heap[w[i]].status = "STOPPED"}
    IN  IF c = {} THEN NULL ELSE w[CHOOSE i \in c : \A j \in c : j <= i]

\* ------------------------------------------------------------- printing
\* print_job: the line printf writes, by its format
print_job(heap, job, is_most_recent_job, custom_command, command_is_fg) ==
    LET j == heap[job]
        marker == IF is_most_recent_job THEN "+" ELSE "-"
    IN  IF custom_command /\ command_is_fg
        THEN [ev |-> "print", fmt |-> "command", job |-> job, n |-> j.job_number,
              marker |-> "", status |-> "", command |-> j.command]
        ELSE IF custom_command
        THEN [ev |-> "print", fmt |-> "notify", job |-> job, n |-> j.job_number,
              marker |-> marker, status |-> "", command |-> j.command]
        ELSE [ev |-> "print", fmt |-> "table", job |-> job, n |-> j.job_number,
              marker |-> marker, status |-> j.status, command |-> j.command]

\* a listing that does not look at the background flag
print_job_table_all(head, heap, print_running_jobs, print_stopped_jobs, print_done_jobs) ==
    LET most_recent_job_num == find_most_recent_job_num(head, heap)
        w == Walk(head, heap)
        shown(a) ==
            \/ heap[a].status = "RUNNING" /\ print_running_jobs = 1
            \/ heap[a].status = "STOPPED" /\ print_stopped_jobs = 1
            \/ heap[a].status = "DONE" /\ print_done_jobs = 1
        sel == SelectSeq(w, shown)
    IN  IF most_recent_job_num = 0 THEN <<>>
        ELSE [i \in 1 .. Len(sel) |->
                print_job(heap, sel[i],
                          most_recent_job_num = heap[sel[i]].job_number, FALSE, FALSE)]

\* print_job_table on a list that ends: the lines printed, in order
print_job_table(head, heap, print_running_jobs, print_stopped_jobs, print_done_jobs) ==
    LET most_recent_job_num == find_most_recent_job_num(head, heap)
        w == Walk(head, heap)
        shown(a) ==
            /\ heap[a].background # 0
            /\ \/ heap[a].status = "RUNNING" /\ print_running_jobs = 1
               \/ heap[a].status = "STOPPED" /\ print_stopped_jobs = 1
               \/ heap[a].status = "DONE" /\ print_done_jobs = 1
        sel == SelectSeq(w, shown)
    IN  IF most_recent_job_num = 0 THEN <<>>
        ELSE [i \in 1 .. Len(sel) |->
                print_job(heap, sel[i],
                          most_recent_job_num = heap[sel[i]].job_number, FALSE, FALSE)]

\* -------------------------------------------------------- command text
\* bound on the length of a command text that still gets the overrun below
MaxCommandLen == 5

EndsWithBgSuffix(command) ==
    LET len == Len(command)
    IN  len >= 2 /\ command[len] = "&" /\ command[len - 1] = " "

\* char bg_suffix[2] = " &" has no terminating NUL: strcat copies " &" and
\* then whatever bytes follow the array on the stack up to the first NUL.
\* "?" stands for such bytes; the empty overrun is a NUL right behind it.
StrcatOverrun(command) ==
    IF Len(command) + 3 <= MaxCommandLen THEN {<<>>, <<"?">>} ELSE {<<>>}

\* update_job_command_str: the command texts the call can leave in the job
update_job_command_str(command, apply_bg) ==
    IF apply_bg # 0
    THEN IF EndsWithBgSuffix(command) THEN {command}
         ELSE {command \o <<" ", "&">> \o g : g \in StrcatOverrun(command)}
    ELSE IF ~EndsWithBgSuffix(command) THEN {command}
         ELSE {SubSeq(command, 1, Len(command) - 2)}

\* ------------------------------------------------------------ reconcile
\* the status word of waitpid: WIFSTOPPED and WSTOPSIG; anything that is not
\* a stop is an exit or a killing signal
StopSignals == {"SIGTSTP", "SIGSTOP", "SIGTTIN", "SIGTTOU"}
Exited == [stopped |-> FALSE, sig |-> "none"]
Stopped(sig) == [stopped |-> TRUE, sig |-> sig]

\* the stop branch of update_job_status for the job it found; hang is the
\* walk of find_most_recent_job_num over a list left cyclic by remove_job
ReconcileStop(head, heap, status, pid, job) ==
    LET h1 == [heap EXCEPT ![job].status = "STOPPED"]
    IN  IF status.sig = "SIGTSTP" \/ status.sig = "SIGSTOP"
        THEN LET h2 == [h1 EXCEPT ![job].background = 1]
             IN  IF h2[job].job_number = FG_JOB_NUM
                 THEN LET r == remove_job(head, h2, pid)
                      IN  IF Cyclic(r.head, r.heap)
                          THEN [head |-> r.head, heap |-> r.heap, ret |-> 1, hang |-> TRUE]
                          ELSE LET h3 == [r.heap EXCEPT ![job].job_number =
                                            find_most_recent_job_num(r.head, r.heap) + 1]
                                   a == add_job(r.head, h3, job)
                               IN  [head |-> a.head, heap |-> a.heap, ret |-> 1,
                                    hang |-> FALSE]
                 ELSE [head |-> head, heap |-> h2, ret |-> 1, hang |-> FALSE]
        ELSE [head |-> head, heap |-> h1, ret |-> 1, hang |-> FALSE]

\* a reconcile that also unlinks the job it marks Done
update_job_status_unlinks(head, heap, status, pid) ==
    IF pid <= 0
    THEN [head |-> head, heap |-> heap, ret |-> 0, hang |-> FALSE]
    ELSE IF FindJobHangs(head, heap, pid)
    THEN [head |-> head, heap |-> heap, ret |-> 1, hang |-> TRUE]
    ELSE LET job == find_job(head, heap, pid)
         IN  IF job = NULL
             THEN [head |-> head, heap |-> heap, ret |-> 1, hang |-> FALSE]
             ELSE IF status.stopped
             THEN ReconcileStop(head, heap, status, pid, job)
             ELSE LET r == remove_job(head, [heap EXCEPT ![job].status = "DONE"], pid)
                  IN  [head |-> r.head, heap |-> r.heap, ret |-> 1, hang |-> FALSE]

\* update_job_status(status, pid): ret is its return value
update_job_status(head, heap, status, pid) ==
    IF pid <= 0
    THEN [head |-> head, heap |-> heap, ret |-> 0, hang |-> FALSE]
    ELSE IF FindJobHangs(head, heap, pid)
    THEN [head |-> head, heap |-> heap, ret |-> 1, hang |-> TRUE]
    ELSE LET job == find_job(head, heap, pid)
         IN  IF job = NULL
             THEN [head |-> head, heap |-> heap, ret |-> 1, hang |-> FALSE]
             ELSE IF status.stopped
             THEN ReconcileStop(head, heap, status, pid, job)
             ELSE [head |-> head, heap |-> [heap EXCEPT ![job].status = "DONE"],
                   ret |-> 1, hang |-> FALSE]

\* ------------------------------------------------------------- state
VARIABLES
    pc,             \* the shell's position in main and the functions it calls
    shell,          \* the shell process: alive, stopped, killed, exit_success, exit_failure
    job_list_head,  \* job_t *job_list_head
    heap,           \* the malloc'ed job_t records, by address
    job,            \* the job argument of execute_in_foreground
    command,        \* main's command while a built-in runs (its other uses are
                    \* within one step: the job owns the text, or it is freed)
    caller,         \* who called execute_in_foreground: execute_job or execute_fg
    procs,          \* the kernel's process table for the shell's children
    tty_pgrp,       \* the foreground process group of the controlling terminal
    launches,       \* jobs malloc'ed so far
    out             \* what the shell's last step printed and freed, in order

vars == <<pc, shell, job_list_head, heap, job, command, caller, procs, tty_pgrp,
          launches, out>>

\* the jobs of the table, in list order, and as a set
Table == Walk(job_list_head, heap)
InTable == Range(Table)

\* --------------------------------------------------------------- kernel
FreeProc ==
    [st |-> "free", phase |-> "none", pgrp |-> 0, sig |-> "none",
     fg |-> FALSE, pipe |-> FALSE, owner |-> NULL]

\* main installs SIG_IGN for the four job-control signals
ShellDisposition(sig) ==
    IF sig \in {"SIGINT", "SIGTSTP", "SIGTTOU", "SIGTTIN"} THEN "SIG_IGN" ELSE "SIG_DFL"

\* a child before its signal() calls has what it inherited from the shell;
\* after them: execute_process sets SIGINT, SIGTSTP default and SIGTTOU
\* ignored, the supervisor of execute_pipe_process sets SIGTTOU default
ChildDisposition(p, sig) ==
    IF procs[p].phase = "forked" THEN ShellDisposition(sig)
    ELSE IF sig \in {"SIGINT", "SIGTSTP"} THEN "SIG_DFL"
    ELSE IF sig = "SIGTTOU" THEN (IF procs[p].pipe THEN "SIG_DFL" ELSE "SIG_IGN")
    ELSE ShellDisposition(sig)

\* the value of fork()'s result in the child, which the child passes to tcsetpgrp
ChildForkResult(p) == 0

Live(p) == procs[p].st # "free"
GroupMembers(pgrp) == {p \in Pids : Live(p) /\ procs[p].pgrp = pgrp}

\* tcsetpgrp(STDIN_FILENO, pgrp) by a process of group mine whose SIGTTOU
\* disposition is ttou.  A caller outside the foreground group that does not
\* ignore SIGTTOU is stopped by it.  A pgrp that is a live pid but not yet a
\* group (its setpgid has not run) is refused by POSIX and accepted by Linux.
tcsetpgrp(mine, ttou, pgrp) ==
    IF mine # tty_pgrp /\ ttou = "SIG_DFL" THEN {"SIGTTOU"}
    ELSE IF pgrp = shell_pid \/ GroupMembers(pgrp) # {} THEN {"ok"}
    ELSE IF pgrp \in Pids /\ Live(pgrp) THEN {"ok", "fail"}
    ELSE {"fail"}

\* kill(-pgid, SIGCONT): fails when no process is in the group; otherwise
\* every stopped member runs again and its unreported stop is forgotten
KillContFails(pgid) == GroupMembers(pgid) = {}

KillCont(pgid) ==
    [p \in Pids |->
        IF p \in GroupMembers(pgid) /\ procs[p].st = "stop"
        THEN [procs[p] EXCEPT !.st = "run", !.sig = "none"]
        ELSE procs[p]]

\* waitpid(-1, &status, WUNTRACED ...): the children it can report now
Waitable ==
    {p \in Pids : procs[p].st = "zombie"
                  \/ (procs[p].st = "stop" /\ procs[p].sig # "none")}

WaitStatus(p) == IF procs[p].st = "zombie" THEN Exited ELSE Stopped(procs[p].sig)

\* a waitpid that goes on reporting a stop it has reported
ReportedAgain(p) ==
    IF procs[p].st = "zombie" THEN [procs EXCEPT ![p] = FreeProc] ELSE procs

\* waitpid(-1, &status, WNOHANG | WUNTRACED) with no child to report: -1
\* without children, 0 with children that have not changed state
waitpid_nothing == IF \A p \in Pids : procs[p].st = "free" THEN -1 ELSE 0

\* the process table after waitpid reported p: a zombie is reaped and its pid
\* is free again, a stop is reported once
Reaped(p) ==
    IF procs[p].st = "zombie" THEN [procs EXCEPT ![p] = FreeProc]
    ELSE [procs EXCEPT ![p].sig = "none"]

NoChildren == \A p \in Pids : ~Live(p)

\* ------------------------------------------------------------- init
Init ==
    /\ pc = "main_drain"
    /\ shell = "alive"
    /\ job_list_head = NULL
    /\ heap = << >>
    /\ job = NULL
    /\ command = << >>
    /\ caller = "none"
    /\ procs = [p \in Pids |-> FreeProc]
    /\ tty_pgrp = shell_pid
    /\ launches = 0
    /\ out = << >>

Running == shell = "alive"

\* print_job_table(0, 0, 1); remove_done_jobs(); as main does after every
\* line: the lines and frees in order; hang when the list is cyclic
PrintAndRemoveDone(head, hp) ==
    IF Cyclic(head, hp)
    THEN [head |-> head, heap |-> hp, out |-> << >>, hang |-> TRUE]
    ELSE LET r == remove_done_jobs(head, hp)
         IN  [head |-> r.head, heap |-> r.heap,
              out |-> print_job_table(head, hp, 0, 0, 1) \o r.freed, hang |-> FALSE]

\* the shell continues at main's "print DONE jobs" with table (head, hp),
\* having printed pre already
Report(head, hp, pre) ==
    LET r == PrintAndRemoveDone(head, hp)
    IN  /\ job_list_head' = r.head
        /\ heap' = r.heap
        /\ out' = pre \o r.out
        /\ pc' = IF r.hang THEN "hang" ELSE "main_drain"

\* ------------------------------------------------------- the prompt loop
\* the lines the user types: nothing, a blank, the three built-ins, a foreground
\* command, a background command, a foreground pipeline, a misplaced &, a |
\* as last token, a redirection as first token
Lines ==
    { << >>, <<" ">>, FOREGROUND, BACKGROUND, JOBS,
      <<"a">>, <<"a", " ", "&">>, <<"a", " ", "|", " ", "b">>, <<"&">>,
      <<"a", " ", "|">>, <<"<", " ", "a">> }

IsCustomCommand(line) == line \in {FOREGROUND, BACKGROUND, JOBS}

\* readline returned line: main's bookkeeping of what it read
ReadLine(line) ==
    /\ pc = "prompt"
    /\ Running
    /\ command' = IF IsCustomCommand(line) THEN line ELSE << >>

\* update_job_table_statuses, one turn of its loop in which waitpid reports a
\* child: at the top of main's loop, first thing in a built-in, after execute_job
update_job_table_statuses ==
    /\ pc \in {"main_drain", "custom_drain", "post_drain"}
    /\ Running
    /\ \E p \in Waitable :
          LET u == update_job_status(job_list_head, heap, WaitStatus(p), p)
          IN  /\ procs' = Reaped(p)
              /\ job_list_head' = u.head
              /\ heap' = u.heap
              /\ pc' = IF u.hang THEN "hang" ELSE pc
    /\ out' = << >>
    /\ UNCHANGED <<shell, job, command, caller, tty_pgrp, launches>>

\* main, line 144 to 147: waitpid reports nothing more, readline is called
main_prompt ==
    /\ pc = "main_drain"
    /\ Running
    /\ Waitable = {}
    /\ pc' = "prompt"
    /\ out' = << >>
    /\ UNCHANGED <<shell, job_list_head, heap, job, command, caller, procs,
                   tty_pgrp, launches>>

\* the double free of free_job_table over a cyclic list: abort, or go on
FreeJobTableOutcomes ==
    IF Cyclic(job_list_head, heap) THEN {"killed", "exit_success", "hang"}
    ELSE {"exit_success"}

\* main, line 150: end of input; free_job_table and exit(EXIT_SUCCESS), after
\* which the process and its memory are gone
main_eof ==
    /\ pc = "prompt"
    /\ Running
    /\ \E o \in FreeJobTableOutcomes :
          /\ shell' = IF o = "hang" THEN shell ELSE o
          /\ pc' = IF o = "hang" THEN "hang" ELSE "exit"
          /\ heap' = IF o = "exit_success" THEN << >> ELSE heap
          /\ job_list_head' = IF o = "exit_success" THEN NULL ELSE job_list_head
    /\ out' = << >>
    /\ UNCHANGED <<job, command, caller, procs, tty_pgrp, launches>>

\* a main without the test of line 160: the job made of no token is linked
\* into the table
main_empty_line_makes_job ==
    /\ launches < MaxLaunches
    /\ \E line \in Lines :
          LET j == launches + 1
              rec == [pgid |-> 0, command |-> line, job_number |-> FG_JOB_NUM,
                      background |-> 0, status |-> "RUNNING",
                      first_process |-> <<EmptyProcess>>, second_process |-> << >>,
                      next |-> NULL]
              a == add_job(job_list_head, heap @@ (j :> rec), j)
          IN  /\ parse_command(line) = << >>
              /\ ReadLine(line)
              /\ Report(a.head, a.heap, << >>)
    /\ launches' = launches + 1
    /\ UNCHANGED <<shell, job, caller, procs, tty_pgrp>>

\* main, line 160: the line has no token
main_empty_line ==
    /\ \E line \in Lines :
          /\ parse_command(line) = << >>
          /\ ReadLine(line)
    /\ Report(job_list_head, heap, << >>)
    /\ UNCHANGED <<shell, job, caller, procs, tty_pgrp, launches>>

\* execute_custom_commands: strcmp of the whole line; the built-in starts
\* by draining
execute_custom_commands ==
    /\ \E line \in Lines :
          /\ parse_command(line) # << >>
          /\ IsCustomCommand(line)
          /\ ReadLine(line)
    /\ pc' = "custom_drain"
    /\ out' = << >>
    /\ UNCHANGED <<shell, job_list_head, heap, job, caller, procs, tty_pgrp, launches>>

Launchable(line) ==
    /\ parse_command(line) # << >>
    /\ ~IsCustomCommand(line)

\* main, line 186: process_input failed and printed its error, the job is
\* dropped
main_parse_error ==
    /\ \E line \in Lines :
          /\ Launchable(line)
          /\ process_input(parse_command(line)).status = COMMAND_PROCESSING_ERROR
          /\ ReadLine(line)
    /\ Report(job_list_head, heap, <<[ev |-> "error", fmt |-> "process_input"]>>)
    /\ UNCHANGED <<shell, job, caller, procs, tty_pgrp, launches>>

\* execute_process / execute_pipe_process, pid < 0: exit(EXIT_FAILURE)
fork_fails ==
    /\ launches < MaxLaunches
    /\ \E line \in Lines :
          /\ Launchable(line)
          /\ process_input(parse_command(line)).status = SUCCESS
          /\ ReadLine(line)
    /\ shell' = "exit_failure"
    /\ pc' = "exit"
    /\ out' = << >>
    /\ UNCHANGED <<job_list_head, heap, job, caller, procs, tty_pgrp, launches>>

\* the child the shell's fork creates: it starts in the shell's group
Forked(j, parsed) ==
    [st |-> "run", phase |-> "forked", pgrp |-> shell_pid, sig |-> "none",
     fg |-> parsed.background = 0, pipe |-> parsed.second_process # << >>,
     owner |-> j]

\* execute_job: fork (any free pid), the job's fields, add_job; a
\* foreground job goes on to execute_in_foreground
execute_job ==
    /\ launches < MaxLaunches
    /\ \E line \in Lines, pgid \in Pids :
          LET parsed == process_input(parse_command(line))
              j == launches + 1
              num == IF parsed.background # 0
                     THEN find_most_recent_job_num(job_list_head, heap) + 1
                     ELSE FG_JOB_NUM
              rec == [pgid |-> pgid, command |-> line, job_number |-> num,
                      background |-> parsed.background, status |-> "RUNNING",
                      first_process |-> parsed.first_process,
                      second_process |-> parsed.second_process, next |-> NULL]
              a == add_job(job_list_head, heap @@ (j :> rec), j)
          IN  /\ Launchable(line)
              /\ parsed.status = SUCCESS
              /\ ~Live(pgid)
              /\ ReadLine(line)
              /\ procs' = [procs EXCEPT ![pgid] = Forked(j, parsed)]
              /\ launches' = j
              /\ IF Cyclic(job_list_head, heap)
                 THEN /\ pc' = "hang"
                      /\ heap' = heap @@ (j :> rec)
                      /\ UNCHANGED <<job_list_head, job, caller>>
                 ELSE /\ job_list_head' = a.head
                      /\ heap' = a.heap
                      /\ IF parsed.background # 0
                         THEN /\ pc' = "post_drain"
                              /\ UNCHANGED <<job, caller>>
                         ELSE /\ pc' = "fg_grant"
                              /\ job' = j
                              /\ caller' = "execute_job"
    /\ out' = << >>
    /\ UNCHANGED <<shell, tty_pgrp>>

\* main's print_job_table(0, 0, 1); remove_done_jobs(); at the end of a turn:
\* after a built-in returned (line 175), or after execute_job once the drain
\* of line 197 reports nothing more
main_report ==
    /\ \/ pc = "report"
       \/ pc = "post_drain" /\ Waitable = {}
    /\ Running
    /\ Report(job_list_head, heap, << >>)
    /\ UNCHANGED <<shell, job, command, caller, procs, tty_pgrp, launches>>

\* -------------------------------------------------------------- built-ins
\* a built-in returns to main with table (head, hp), having printed lines
Returned(head, hp, lines) ==
    /\ job_list_head' = head
    /\ heap' = hp
    /\ out' = lines
    /\ pc' = "report"

\* a built-in's own drain has ended
CustomReady(name) ==
    /\ pc = "custom_drain"
    /\ Running
    /\ command = name
    /\ Waitable = {}

\* a continue_background_job that addresses the group numbered like the job
sigcont_group_by_number(j) == j.job_number

\* continue_background_job, line 525: the process group kill(-job->pgid,
\* SIGCONT) addresses
sigcont_group(j) == j.pgid

\* execute_fg after its drain
execute_fg ==
    /\ CustomReady(FOREGROUND)
    /\ IF Cyclic(job_list_head, heap)
       THEN /\ pc' = "hang"
            /\ out' = << >>
            /\ UNCHANGED <<job_list_head, heap, job, caller, procs>>
       ELSE LET fg_job == find_next_job_to_fg(job_list_head, heap)
            IN  IF fg_job = NULL
                THEN /\ Returned(job_list_head, heap, << >>)
                     /\ UNCHANGED <<job, caller, procs>>
                ELSE \E text \in update_job_command_str(heap[fg_job].command, 0) :
                       LET h1 == [heap EXCEPT ![fg_job].command = text,
                                              ![fg_job].status = "RUNNING"]
                           line == print_job(h1, fg_job,
                                     find_most_recent_job_num(job_list_head, h1)
                                        = h1[fg_job].job_number, TRUE, TRUE)
                           h2 == [h1 EXCEPT ![fg_job].background = 0]
                       IN  IF KillContFails(sigcont_group(h2[fg_job]))
                           THEN /\ Returned(job_list_head,
                                            [h2 EXCEPT ![fg_job].status = "STOPPED"],
                                            <<line>>)
                                /\ UNCHANGED <<job, caller, procs>>
                           ELSE /\ procs' = KillCont(sigcont_group(h2[fg_job]))
                                /\ heap' = h2
                                /\ job' = fg_job
                                /\ caller' = "execute_fg"
                                /\ pc' = "fg_grant"
                                /\ out' = <<line>>
                                /\ UNCHANGED <<job_list_head>>
    /\ command' = << >>
    /\ UNCHANGED <<shell, tty_pgrp, launches>>

\* execute_bg after its drain
execute_bg ==
    /\ CustomReady(BACKGROUND)
    /\ IF Cyclic(job_list_head, heap)
       THEN /\ pc' = "hang"
            /\ out' = << >>
            /\ UNCHANGED <<job_list_head, heap, procs>>
       ELSE LET bg_job == find_next_job_to_bg(job_list_head, heap)
            IN  IF bg_job = NULL
                THEN /\ Returned(job_list_head, heap, << >>)
                     /\ UNCHANGED procs
                ELSE \E text \in update_job_command_str(heap[bg_job].command, 1) :
                       LET h1 == [heap EXCEPT ![bg_job].command = text,
                                              ![bg_job].status = "RUNNING"]
                           line == print_job(h1, bg_job,
                                     find_most_recent_job_num(job_list_head, h1)
                                        = h1[bg_job].job_number, TRUE, FALSE)
                           h2 == [h1 EXCEPT ![bg_job].background = 1]
                       IN  IF KillContFails(sigcont_group(h2[bg_job]))
                           THEN /\ Returned(job_list_head,
                                            [h2 EXCEPT ![bg_job].status = "STOPPED"],
                                            <<line>>)
                                /\ UNCHANGED procs
                           ELSE /\ procs' = KillCont(sigcont_group(h2[bg_job]))
                                /\ Returned(job_list_head, h2, <<line>>)
    /\ command' = << >>
    /\ UNCHANGED <<shell, job, caller, tty_pgrp, launches>>

\* execute_jobs after its drain: print_job_table(0, 0, 1), remove_done_jobs,
\* print_job_table(1, 1, 0)
execute_jobs ==
    /\ CustomReady(JOBS)
    /\ LET r == PrintAndRemoveDone(job_list_head, heap)
       IN  IF r.hang
           THEN /\ pc' = "hang"
                /\ out' = << >>
                /\ UNCHANGED <<job_list_head, heap>>
           ELSE Returned(r.head, r.heap,
                         r.out \o print_job_table(r.head, r.heap, 1, 1, 0))
    /\ command' = << >>
    /\ UNCHANGED <<shell, job, caller, procs, tty_pgrp, launches>>

\* ------------------------------------------------------- foreground wait
\* execute_in_foreground, line 513: tcsetpgrp(STDIN_FILENO, job->pgid)
execute_in_foreground_grant ==
    /\ pc = "fg_grant"
    /\ Running
    /\ \E o \in tcsetpgrp(shell_pid, ShellDisposition("SIGTTOU"), heap[job].pgid) :
          /\ tty_pgrp' = IF o = "ok" THEN heap[job].pgid ELSE tty_pgrp
          /\ shell' = IF o = "SIGTTOU" THEN "stopped" ELSE shell
    /\ pc' = "fg_wait"
    /\ out' = << >>
    /\ UNCHANGED <<job_list_head, heap, job, command, caller, procs, launches>>

\* execute_in_foreground without its line 518: the wait ends and the terminal
\* stays with whatever group has it
ForegroundReturnNoReclaim(head, hp) ==
    /\ UNCHANGED <<tty_pgrp, shell>>
    /\ job_list_head' = head
    /\ heap' = hp
    /\ out' = << >>
    /\ pc' = IF caller = "execute_job" THEN "post_drain" ELSE "report"

\* execute_in_foreground, line 518, and the return to the caller: to main's
\* second drain after execute_job, out of the built-in after execute_fg
ForegroundReturn(head, hp) ==
    /\ \E o \in tcsetpgrp(shell_pid, ShellDisposition("SIGTTOU"), shell_pid) :
          /\ tty_pgrp' = IF o = "ok" THEN shell_pid ELSE tty_pgrp
          /\ shell' = IF o = "SIGTTOU" THEN "stopped" ELSE shell
    /\ job_list_head' = head
    /\ heap' = hp
    /\ out' = << >>
    /\ pc' = IF caller = "execute_job" THEN "post_drain" ELSE "report"

\* execute_in_foreground, line 514 to 517: one turn of the loop; waitpid
\* blocks while there are children and none has a change to report
execute_in_foreground ==
    /\ pc = "fg_wait"
    /\ Running
    /\ \/ \E p \in Waitable :
            LET u == update_job_status(job_list_head, heap, WaitStatus(p), p)
            IN  /\ procs' = Reaped(p)
                /\ IF u.hang
                   THEN /\ pc' = "hang"
                        /\ job_list_head' = u.head
                        /\ heap' = u.heap
                        /\ out' = << >>
                        /\ UNCHANGED <<shell, tty_pgrp>>
                   ELSE IF u.ret # 0 /\ u.heap[job].status = "RUNNING"
                   THEN /\ job_list_head' = u.head
                        /\ heap' = u.heap
                        /\ out' = << >>
                        /\ UNCHANGED <<pc, shell, tty_pgrp>>
                   ELSE ForegroundReturn(u.head, u.heap)
       \/ /\ NoChildren
          /\ ForegroundReturn(job_list_head, heap)
          /\ UNCHANGED procs
    /\ UNCHANGED <<job, command, caller, launches>>

\* ------------------------------------------------- children and terminal
\* the environment moves while the shell is running its loop
EnvRuns == pc \notin {"hang", "exit"} /\ Running

ShellVars == <<pc, shell, job_list_head, heap, job, command, caller, launches, out>>

\* the foreground job of the shell, while execute_in_foreground runs
Waiting == pc \in {"fg_grant", "fg_wait"}

\* the children in ps end
Terminate(ps) ==
    procs' = [p \in Pids |-> IF p \in ps THEN [procs[p] EXCEPT !.st = "zombie",
                                                                  !.sig = "none"]
                                ELSE procs[p]]

\* the child of execute_process / the supervisor of execute_pipe_process:
\* the signal() calls and setpgid(0, 0)
child_setpgid(p) ==
    /\ EnvRuns
    /\ procs[p].st = "run" /\ procs[p].phase = "forked"
    /\ procs' = [procs EXCEPT ![p].pgrp = p,
                              ![p].phase = IF procs[p].fg THEN "grouped" ELSE "ready"]
    /\ UNCHANGED <<ShellVars, tty_pgrp>>

\* the child's tcsetpgrp(STDIN_FILENO, pid) of a foreground job, pid being
\* what fork returned in the child
child_tcsetpgrp(p) ==
    /\ EnvRuns
    /\ procs[p].st = "run" /\ procs[p].phase = "grouped"
    /\ \E o \in tcsetpgrp(procs[p].pgrp, ChildDisposition(p, "SIGTTOU"), ChildForkResult(p)) :
          /\ tty_pgrp' = IF o = "ok" THEN ChildForkResult(p) ELSE tty_pgrp
          /\ procs' = IF o = "SIGTTOU"
                      THEN [procs EXCEPT ![p].st = "stop", ![p].sig = "SIGTTOU"]
                      ELSE [procs EXCEPT ![p].phase = "ready"]
    /\ UNCHANGED <<ShellVars>>

\* apply_file_redirects succeeded and execvp replaced the child's image
child_exec(p) ==
    /\ EnvRuns
    /\ procs[p].st = "run" /\ procs[p].phase = "ready"
    /\ procs' = [procs EXCEPT ![p].phase = "exec"]
    /\ UNCHANGED <<ShellVars, tty_pgrp>>

\* a child ends: exit(EXIT_FAILURE) after a failed redirection or exec, the
\* program's own exit, the supervisor's exit(EXIT_SUCCESS), a killing signal
child_exit(p) ==
    /\ EnvRuns
    /\ procs[p].st = "run" /\ procs[p].phase \in {"ready", "exec"}
    /\ Terminate({p})
    /\ UNCHANGED <<ShellVars, tty_pgrp>>

\* the processes of the terminal's foreground group that a terminal signal
\* with default disposition reaches
Reached(sig) ==
    {p \in GroupMembers(tty_pgrp) :
        procs[p].st = "run" /\ ChildDisposition(p, sig) = "SIG_DFL"}

ShellReached(sig) == tty_pgrp = shell_pid /\ ShellDisposition(sig) = "SIG_DFL"

\* Ctrl-C: SIGINT to the terminal's foreground process group
ctrl_c ==
    /\ EnvRuns
    /\ Reached("SIGINT") # {} \/ ShellReached("SIGINT")
    /\ Terminate(Reached("SIGINT"))
    /\ shell' = IF ShellReached("SIGINT") THEN "killed" ELSE shell
    /\ UNCHANGED <<pc, job_list_head, heap, job, command, caller, launches, out, tty_pgrp>>

\* Ctrl-Z: SIGTSTP to the terminal's foreground process group
ctrl_z ==
    /\ EnvRuns
    /\ Reached("SIGTSTP") # {} \/ ShellReached("SIGTSTP")
    /\ procs' = [p \in Pids |-> IF p \in Reached("SIGTSTP")
                                THEN [procs[p] EXCEPT !.st = "stop", !.sig = "SIGTSTP"]
                                ELSE procs[p]]
    /\ shell' = IF ShellReached("SIGTSTP") THEN "stopped" ELSE shell
    /\ UNCHANGED <<pc, job_list_head, heap, job, command, caller, launches, out, tty_pgrp>>

\* a running program is stopped by a signal it raises or is sent:
\* WUNTRACED makes waitpid report it.  (Only the shell's fg and bg send
\* SIGCONT to the shell's jobs.)
child_stop(p, sig) ==
    /\ EnvRuns
    /\ procs[p].st = "run" /\ procs[p].phase = "exec"
    /\ procs' = [procs EXCEPT ![p].st = "stop", ![p].sig = sig]
    /\ UNCHANGED <<ShellVars, tty_pgrp>>

\* ------------------------------------------------------- specification
ShellStep ==
    \/ update_job_table_statuses
    \/ main_prompt
    \/ main_eof
    \/ main_empty_line
    \/ execute_custom_commands
    \/ main_parse_error
    \/ fork_fails
    \/ execute_job
    \/ main_report
    \/ execute_fg
    \/ execute_bg
    \/ execute_jobs
    \/ execute_in_foreground_grant
    \/ execute_in_foreground

EnvStep ==
    \/ \E p \in Pids : child_setpgid(p)
    \/ \E p \in Pids : child_tcsetpgrp(p)
    \/ \E p \in Pids : child_exec(p)
    \/ \E p \in Pids : child_exit(p)
    \/ ctrl_c
    \/ ctrl_z
    \/ \E p \in Pids, sig \in {"SIGSTOP", "SIGTTIN"} : child_stop(p, sig)

Next == ShellStep \/ EnvStep

Spec == Init /\ [][Next]_vars

\* ------------------------------------------------------------ type sanity
TypeOK ==
    /\ pc \in {"main_drain", "prompt", "custom_drain", "post_drain", "report", "fg_grant",
               "fg_wait", "hang", "exit"}
    /\ shell \in {"alive", "stopped", "killed", "exit_success", "exit_failure"}
    /\ job_list_head \in {NULL} \cup DOMAIN heap
    /\ DOMAIN heap \subseteq Addrs
    /\ \A a \in DOMAIN heap : heap[a].next \in {NULL} \cup DOMAIN heap
    /\ tty_pgrp \in Pids \cup {shell_pid}
    /\ launches \in 0 .. MaxLaunches


\* =================================================================== claims
\* the jobs of the table whose background flag is set
BackgroundJobs == {a \in InTable : heap[a].background # 0}

\* C1: in every reachable state no two jobs of the table have the same pgid,
\* every pgid of the table is positive, no two jobs whose background flag is
\* set have the same job number, and every such job number is positive
C1_TableKeysUnique ==
    /\ \A a, b \in InTable : a # b => heap[a].pgid # heap[b].pgid
    /\ \A a \in InTable : heap[a].pgid > 0
    /\ \A a, b \in BackgroundJobs : a # b => heap[a].job_number # heap[b].job_number
    /\ \A a \in BackgroundJobs : heap[a].job_number > 0

\* C2: whenever the shell is about to read a line at the prompt, at most one
\* job of the table has its background flag cleared
C2_OneForegroundJobAtPrompt ==
    pc = "prompt" => Cardinality(InTable \ BackgroundJobs) <= 1

\* C3: whenever the shell is reading the prompt, the foreground process group
\* of the controlling terminal is the shell's own group
C3_PromptOwnsTerminal ==
    pc = "prompt" => tty_pgrp = shell_pid

\* C3 witness: the shell is back at the prompt after a foreground wait that
\* ended with the stop of the job it had launched in the foreground
C3_PromptAfterForegroundStop ==
    /\ pc = "prompt"
    /\ \E p \in Pids :
          /\ procs[p].st = "stop" /\ procs[p].sig = "none" /\ procs[p].fg
          /\ procs[p].owner \in InTable
          /\ heap[procs[p].owner].status = "STOPPED"
          /\ heap[procs[p].owner].pgid = p

\* C4: while the shell runs the foreground wait of a job it launched, the
\* program of the job's child (or the supervisor's pipeline) never runs
\* unless the job's process group owns the controlling terminal, whichever of
\* the shell's grant and the child's setpgid came first
C4_TerminalHandedOffBeforeProgramRuns ==
    \A p \in Pids :
        ( /\ Waiting /\ caller = "execute_job"
          /\ procs[p].owner = job
          /\ procs[p].st \in {"run", "stop"} /\ procs[p].phase = "exec" )
        => tty_pgrp = procs[p].pgrp

\* the step of the foreground wait in which waitpid reports that the process
\* of the waited job was stopped by SIGTSTP or SIGSTOP
ForegroundStopReported ==
    /\ pc = "fg_wait"
    /\ \E p \in Pids :
          /\ procs[p].owner = job
          /\ procs[p].st = "stop" /\ procs[p].sig \in {"SIGTSTP", "SIGSTOP"}
          /\ procs'[p].st = "stop" /\ procs'[p].sig = "none"

\* the step of the foreground wait in which waitpid reports that the process
\* of the waited job has terminated
ForegroundTerminationReported ==
    /\ pc = "fg_wait"
    /\ \E p \in Pids :
          /\ procs[p].owner = job
          /\ procs[p].st = "zombie" /\ procs'[p].st = "free"

\* the largest element of a set of numbers, 0 for the empty set
MaxOf(S) == IF S = {} THEN 0 ELSE CHOOSE m \in S : \A n \in S : n <= m

\* C5: when the foreground job, still carrying the foreground sentinel
\* number, is reported stopped by SIGTSTP or SIGSTOP during its foreground
\* wait, the wait ends with the terminal back at the shell and the job is in
\* the table Stopped, background, numbered 1 + the largest number of the other
\* background jobs of the table, and last in the table with no successor
C5_ForegroundStopBecomesBackgroundJob ==
    [][ (ForegroundStopReported /\ heap[job].job_number = FG_JOB_NUM) =>
            LET w == Walk(job_list_head', heap')
                others == {heap'[a].job_number :
                             a \in {b \in Range(w) \ {job} : heap'[b].background # 0}}
            IN  /\ pc' \in {"post_drain", "report"}
                /\ tty_pgrp' = shell_pid
                /\ job \in Range(w)
                /\ w[Len(w)] = job
                /\ heap'[job].next = NULL
                /\ heap'[job].status = "STOPPED"
                /\ heap'[job].background # 0
                /\ heap'[job].job_number = 1 + MaxOf(others) ]_vars

\* C6: the shell is never terminated or stopped by a signal; every process in
\* the terminal's foreground group other than the shell has SIGINT at its
\* default; and when the process of the waited job has terminated, the wait
\* marks that job Done and ends with the terminal back at the shell
C6_SigintEndsJobNotShell ==
    [][ /\ shell' \notin {"killed", "stopped"}
        /\ \A sig \in {"SIGINT", "SIGTSTP", "SIGTTOU", "SIGTTIN"} :
              ShellDisposition(sig) = "SIG_IGN"
        /\ tty_pgrp # shell_pid =>
              \A p \in GroupMembers(tty_pgrp) : ChildDisposition(p, "SIGINT") = "SIG_DFL"
        /\ ForegroundTerminationReported =>
              /\ heap'[job].status = "DONE"
              /\ pc' \in {"post_drain", "report"}
              /\ tty_pgrp' = shell_pid ]_vars

\* the places of the Done lines and of the frees of job a in what a step wrote
DoneLines(o, a) ==
    {i \in DOMAIN o : /\ o[i].ev = "print" /\ o[i].job = a
                      /\ o[i].fmt = "table" /\ o[i].status = "DONE"}

Frees(o, a) == {i \in DOMAIN o : o[i].ev = "free" /\ o[i].job = a}

\* C7: while the shell runs, a Done job stays Done until it is removed; a Done
\* background job is removed only in a step that printed exactly one Done line
\* for it, before freeing it; a job for which a Done line is printed is
\* removed in that step; and when main's print-and-prune has run (once per
\* line entered) no Done job is in the table
C7_DoneReportedOncePrunedNext ==
    [][ (shell' = "alive") =>
        /\ \A a \in DOMAIN heap :
              heap[a].status = "DONE" =>
                 (a \notin DOMAIN heap' \/ heap'[a].status = "DONE")
        /\ \A a \in DOMAIN heap \ DOMAIN heap' :
              (heap[a].status = "DONE" /\ heap[a].background # 0) =>
                 /\ Cardinality(DoneLines(out', a)) = 1
                 /\ \A i \in DoneLines(out', a) : \E k \in Frees(out', a) : i < k
        /\ \A a \in DOMAIN heap :
              DoneLines(out', a) # {} => a \notin DOMAIN heap'
        /\ (pc' = "main_drain" /\ pc # "main_drain") =>
              \A a \in Range(Walk(job_list_head', heap')) : heap'[a].status # "DONE"
      ]_vars

\* C8: when the process of the waited job has terminated, the job is Done
\* with its background flag cleared; no Done line is ever printed for a job
\* whose background flag is cleared; and when main's print-and-prune has run
\* no Done job is in the table, so the job is gone at the next prompt read
C8_ForegroundDoneSilentlyPruned ==
    [][ /\ ForegroundTerminationReported =>
              (heap'[job].status = "DONE" /\ heap'[job].background = 0)
        /\ \A a \in DOMAIN heap :
              DoneLines(out', a) # {} => heap[a].background # 0
        /\ (pc' = "main_drain" /\ pc # "main_drain") =>
              \A a \in Range(Walk(job_list_head', heap')) :
                  ~(heap'[a].status = "DONE" /\ heap'[a].background = 0)
      ]_vars

\* C9: when the jobs built-in has run, whatever the table and the pending
\* child notifications were, no job of the table has status Done
C9_NoDoneJobAfterJobs ==
    [][ (pc = "custom_drain" /\ command = JOBS /\ pc' = "report") =>
           \A a \in Range(Walk(job_list_head', heap')) : heap'[a].status # "DONE" ]_vars

\* C9 witness: jobs has just run, it freed a Done job and listed a job that
\* is Running or Stopped
C9_JobsPrunedAndListed ==
    /\ pc = "report"
    /\ \E i \in DOMAIN out : out[i].ev = "free"
    /\ \E k \in DOMAIN out :
          /\ out[k].ev = "print" /\ out[k].fmt = "table"
          /\ out[k].status \in {"RUNNING", "STOPPED"}

\* the step in which fg, its drain done, selects a job or finds none
FgStep ==
    /\ pc = "custom_drain" /\ command = FOREGROUND /\ Waitable = {}
    /\ pc' # pc

\* C10: fg selects the last job of the table that is not Done; with none the
\* table is unchanged; otherwise the job is Running with its background flag
\* cleared, its number and the table order are unchanged, the stopped
\* processes of its group run again, and the shell enters the foreground wait
\* on it: the terminal is granted to its pgid, and when its process is
\* reported stopped or terminated the wait ends with the terminal reclaimed
C10_FgResumesLastJobAndWaits ==
    [][ /\ FgStep =>
              LET w == Table
                  c == {i \in 1 .. Len(w) : heap[w[i]].status # "DONE"}
              IN  IF c = {}
                  THEN job_list_head' = job_list_head /\ heap' = heap
                  ELSE LET fg_job == w[MaxOf(c)]
                       IN  /\ heap'[fg_job].status = "RUNNING"
                           /\ heap'[fg_job].background = 0
                           /\ heap'[fg_job].job_number = heap[fg_job].job_number
                           /\ Walk(job_list_head', heap') = w
                           /\ \A p \in Pids :
                                 (Live(p) /\ procs[p].pgrp = heap[fg_job].pgid
                                    /\ procs[p].st = "stop") => procs'[p].st = "run"
                           /\ pc' = "fg_grant"
                           /\ job' = fg_job
        /\ (pc = "fg_grant" /\ caller = "execute_fg" /\ pc' = "fg_wait") =>
              tty_pgrp' = heap[job].pgid
        /\ (caller = "execute_fg"
              /\ (ForegroundStopReported \/ ForegroundTerminationReported)) =>
              (pc' = "report" /\ tty_pgrp' = shell_pid)
      ]_vars

\* the step in which bg, its drain done, selects a job or finds none
BgStep ==
    /\ pc = "custom_drain" /\ command = BACKGROUND /\ Waitable = {}
    /\ pc' # pc

C12_StopBgThenDoneOnce ==
    [][ \A a \in DOMAIN heap :
          (Table = <<a>> /\ shell' = "alive") =>
            /\ ( /\ pc = "fg_wait" /\ caller = "execute_job"
                 /\ heap[a].job_number = FG_JOB_NUM /\ heap[a].status = "RUNNING"
                 /\ procs[heap[a].pgid].st = "stop"
                 /\ procs[heap[a].pgid].sig = "SIGTSTP"
                 /\ procs'[heap[a].pgid].sig = "none" )
               => /\ Walk(job_list_head', heap') = <<a>>
                  /\ heap'[a].status = "STOPPED"
                  /\ heap'[a].background = 1
                  /\ heap'[a].job_number = 1
            /\ ( /\ BgStep
                 /\ heap[a].status = "STOPPED" /\ heap[a].background # 0
                 /\ heap[a].job_number = 1
                 /\ ~EndsWithBgSuffix(heap[a].command) )
               => /\ Walk(job_list_head', heap') = <<a>>
                  /\ heap'[a].status = "RUNNING"
                  /\ heap'[a].background # 0
                  /\ heap'[a].job_number = 1
                  /\ heap'[a].command = heap[a].command \o <<" ", "&">>
                  /\ Len(out') = 1
                  /\ out'[1].ev = "print" /\ out'[1].job = a /\ out'[1].n = 1
                  /\ out'[1].marker = "+"
                  /\ out'[1].command = heap'[a].command
            /\ ( /\ pc' = "main_drain" /\ pc # "main_drain"
                 /\ heap[a].status = "DONE" /\ heap[a].background # 0
                 /\ heap[a].job_number = 1 )
               => /\ Cardinality(DoneLines(out', a)) = 1
                  /\ \A i \in DoneLines(out', a) : out'[i].n = 1 /\ out'[i].marker = "+"
                  /\ Walk(job_list_head', heap') = << >>
      ]_vars

\* the job numbers of the table's jobs whose background flag is set, Done
\* ones included
BackgroundNumbers ==
    {heap[a].job_number : a \in {b \in Range(Table) : heap[b].background # 0}}

MostRecentJobs ==
    {a \in BackgroundJobs : heap[a].job_number = MaxOf(BackgroundNumbers)}

\* C14: every job line of a jobs listing, a Done notification or a bg
\* notification, in the step that prints it, carries + when the job's number
\* is the largest number of the
\* background jobs in the table as it is when the line is printed (Done lines
\* and the bg line before pruning, the Running/Stopped lines of jobs after
\* it), and - otherwise; and at most one job of the table has that number
C14_PlusMarksTheMostRecentJob ==
    [][ /\ \A i \in DOMAIN out' :
              (/\ pc' # pc /\ pc' \in {"report", "main_drain"}
               /\ out'[i].ev = "print" /\ out'[i].fmt \in {"table", "notify"}) =>
                 LET now == IF out'[i].fmt = "table" /\ out'[i].status # "DONE"
                            THEN MaxOf(BackgroundNumbers)'
                            ELSE MaxOf(BackgroundNumbers)
                 IN  /\ out'[i].marker \in {"+", "-"}
                     /\ out'[i].marker = "+" <=> out'[i].n = now
        /\ Cardinality(MostRecentJobs) <= 1
      ]_vars

\* the step in which jobs, its drain done, prints and prunes
JobsStep ==
    /\ pc = "custom_drain" /\ command = JOBS /\ Waitable = {}
    /\ pc' = "report"

\* C15: jobs prints exactly one line per job of the table whose background
\* flag is set and none for any other job: first the Done background jobs in
\* table order, which are then removed, then the Running and Stopped
\* background jobs in table order, which stay; each line shows the job's
\* number and status
C15_JobsListsBackgroundJobsOnly ==
    [][ JobsStep =>
          LET isDone(a) == heap[a].background # 0 /\ heap[a].status = "DONE"
              isLive(a) == heap[a].background # 0 /\ heap[a].status # "DONE"
              isPrint(e) == e.ev = "print"
              dn == SelectSeq(Table, isDone)
              lv == SelectSeq(Table, isLive)
              pr == SelectSeq(out', isPrint)
          IN  /\ [i \in 1 .. Len(pr) |-> pr[i].job] = dn \o lv
              /\ \A i \in 1 .. Len(pr) :
                    /\ pr[i].fmt = "table"
                    /\ pr[i].n = heap[pr[i].job].job_number
                    /\ pr[i].status = heap[pr[i].job].status
                    /\ heap[pr[i].job].background # 0
              /\ \A a \in Range(dn) : a \notin Range(Walk(job_list_head', heap'))
              /\ \A a \in Range(lv) : a \in Range(Walk(job_list_head', heap'))
              /\ \A i, k \in DOMAIN out' :
                    (out'[i].ev = "free" /\ out'[k].ev = "print") =>
                       (k < i <=> out'[k].status = "DONE")
      ]_vars

\* jobs has listed a Running or Stopped background job while a job whose
\* background flag is cleared sits in the table unlisted
C15_JobsSkippedForegroundFlagJob ==
    /\ pc = "report"
    /\ \E i \in DOMAIN out : out[i].ev = "print" /\ out[i].fmt = "table"
                               /\ out[i].status \in {"RUNNING", "STOPPED"}
    /\ \E a \in InTable :
          /\ heap[a].background = 0
          /\ \A i \in DOMAIN out : out[i].ev = "print" => out[i].job # a

\* ============================================ one job and its processes
\* The launch of one job followed through its processes: the child of
\* execute_process, or the supervisor of execute_pipe_process with its two
\* grandchildren, their descriptor tables and their redirections.

\* descriptors 0 .. MaxFd exist in a descriptor table
MaxFd == 4

STDIN_FILENO == 0
STDOUT_FILENO == 1
STDERR_FILENO == 2
FILE_REDIRECTION_ERROR == -1

\* what a descriptor refers to
Closed == [kind |-> "closed", name |-> << >>]
Tty == [kind |-> "tty", name |-> << >>]
PipeRead == [kind |-> "pipe_r", name |-> << >>]
PipeWrite == [kind |-> "pipe_w", name |-> << >>]
File(filename) == [kind |-> "file", name |-> filename]

\* the descriptor table the shell hands to a child: the terminal on 0, 1, 2
ShellFds == [n \in 0 .. MaxFd |-> IF n <= STDERR_FILENO THEN Tty ELSE Closed]

\* after exit every descriptor is closed
NoFds == [n \in 0 .. MaxFd |-> Closed]

\* the file x cannot be opened, in any mode; every other file can
CanOpen(filename) == filename # <<"x">>

\* the descriptor open() or pipe() hands out: the lowest one not in use
LowestFree(fd) ==
    CHOOSE n \in DOMAIN fd :
        fd[n] = Closed /\ \A m \in DOMAIN fd : m < n => fd[m] # Closed

\* dup2(oldfd, newfd): fails, changing nothing, when oldfd is not open (-1)
dup2(fd, oldfd, newfd) ==
    IF oldfd \in DOMAIN fd /\ fd[oldfd] # Closed
    THEN [fd EXCEPT ![newfd] = fd[oldfd]]
    ELSE fd

\* close(n): close(-1) fails and changes nothing
close(fd, n) == IF n \in DOMAIN fd THEN [fd EXCEPT ![n] = Closed] ELSE fd

\* one block of apply_file_redirects: open, on failure status = -1 and the
\* diagnostic goes to what descriptor 2 is at that moment, then dup2 and
\* close whether or not the open succeeded
Redirect(st, filename, newfd) ==
    IF filename = << >> THEN st
    ELSE LET n == IF CanOpen(filename) THEN LowestFree(st.fd) ELSE -1
             opened == IF n >= 0 THEN [st.fd EXCEPT ![n] = File(filename)] ELSE st.fd
         IN  [status |-> IF n < 0 THEN -1 ELSE st.status,
              perror |-> IF n < 0
                         THEN Append(st.perror, [filename |-> filename,
                                                 to |-> st.fd[STDERR_FILENO]])
                         ELSE st.perror,
              opens |-> IF n >= 0 THEN Append(st.opens, filename) ELSE st.opens,
              fd |-> close(dup2(opened, n, newfd), n)]

\* nuke_all_file_descriptors: three dup2 calls onto descriptor 0
nuke_all_file_descriptors(fd) ==
    dup2(dup2(dup2(fd, STDIN_FILENO, STDIN_FILENO), STDOUT_FILENO, STDIN_FILENO),
         STDERR_FILENO, STDIN_FILENO)

\* an apply_file_redirects whose status is that of the last open it made
apply_file_redirects_last_open(process, fd) ==
    LET s0 == [status |-> 0, perror |-> << >>, opens |-> << >>, fd |-> fd]
        s1 == Redirect(s0, process.redirect_error_filename, STDERR_FILENO)
        s2 == Redirect(s1, process.redirect_input_filename, STDIN_FILENO)
        s3 == Redirect(s2, process.redirect_output_filename, STDOUT_FILENO)
        last == IF process.redirect_output_filename # << >>
                THEN process.redirect_output_filename
                ELSE IF process.redirect_input_filename # << >>
                THEN process.redirect_input_filename
                ELSE process.redirect_error_filename
    IN  IF last # << >> /\ ~CanOpen(last)
        THEN [s3 EXCEPT !.status = FILE_REDIRECTION_ERROR,
                        !.fd = nuke_all_file_descriptors(s3.fd)]
        ELSE [s3 EXCEPT !.status = SUCCESS]

\* apply_file_redirects: error, input, output in that order; status is
\* SUCCESS or FILE_REDIRECTION_ERROR
\* apply_file_redirects that returns at the first open that fails
apply_file_redirects_stops_at_failure(process, fd) ==
    LET s0 == [status |-> 0, perror |-> << >>, opens |-> << >>, fd |-> fd]
        s1 == Redirect(s0, process.redirect_error_filename, STDERR_FILENO)
        s2 == IF s1.status = -1 THEN s1
              ELSE Redirect(s1, process.redirect_input_filename, STDIN_FILENO)
        s3 == IF s2.status = -1 THEN s2
              ELSE Redirect(s2, process.redirect_output_filename, STDOUT_FILENO)
    IN  IF s3.status = -1
        THEN [s3 EXCEPT !.status = FILE_REDIRECTION_ERROR,
                        !.fd = nuke_all_file_descriptors(s3.fd)]
        ELSE [s3 EXCEPT !.status = SUCCESS]

apply_file_redirects(process, fd) ==
    LET s0 == [status |-> 0, perror |-> << >>, opens |-> << >>, fd |-> fd]
        s1 == Redirect(s0, process.redirect_error_filename, STDERR_FILENO)
        s2 == Redirect(s1, process.redirect_input_filename, STDIN_FILENO)
        s3 == Redirect(s2, process.redirect_output_filename, STDOUT_FILENO)
    IN  IF s3.status = -1
        THEN [s3 EXCEPT !.status = FILE_REDIRECTION_ERROR,
                        !.fd = nuke_all_file_descriptors(s3.fd)]
        ELSE [s3 EXCEPT !.status = SUCCESS]

\* the pids fork returns in the supervisor: pid1 and pid2.  They are no
\* children of the shell, whose waitpid(-1) sees the pids of Pids only.
ProducerPid == shell_pid + 1
ConsumerPid == shell_pid + 2
GrandPids == {ProducerPid, ConsumerPid}
JobPids == Pids \cup GrandPids

\* the lines typed: a command, with an input file that is missing, with an
\* output file that opens, with both, with an error file that opens and an
\* input file that is missing; a pipeline, in the background, with an
\* input file that is missing on either side, with files that open
JobLines ==
    { <<"a">>,
      <<"a", " ", "<", " ", "x">>,
      <<"a", " ", ">", " ", "f">>,
      <<"a", " ", "<", " ", "x", " ", ">", " ", "f">>,
      <<"a", " ", "2", ">", " ", "f", " ", "<", " ", "x">>,
      <<"a", " ", "|", " ", "b">>,
      <<"a", " ", "|", " ", "b", " ", "&">>,
      <<"a", " ", "<", " ", "x", " ", "|", " ", "b">>,
      <<"a", " ", "|", " ", "b", " ", "<", " ", "x">>,
      <<"a", " ", ">", " ", "f", " ", "|", " ", "b", " ", "<", " ", "g">> }

\* the memory image fork gives the child of the shell: the job's processes
\* and the shell's descriptors
JobForked(j, parsed) ==
    [st |-> "run", phase |-> "forked", pgrp |-> shell_pid, sig |-> "none",
     fg |-> parsed.background = 0, pipe |-> parsed.second_process # << >>,
     owner |-> j, parent |-> shell_pid, fd |-> ShellFds, exit |-> "none",
     process |-> IF parsed.second_process # << >> THEN << >> ELSE parsed.first_process,
     first_process |-> parsed.first_process,
     second_process |-> parsed.second_process,
     perror |-> << >>, opens |-> << >>]

\* a grandchild: the supervisor's image, its group and its descriptors
GrandForked(p, process) ==
    [procs[p] EXCEPT !.phase = "born", !.parent = p, !.process = process]

\* exit(code), or death by signal: the descriptors close
Ended(p, code) ==
    [procs[p] EXCEPT !.st = "zombie", !.sig = "none", !.exit = code, !.fd = NoFds]

JobInit ==
    /\ pc = "main_drain"
    /\ shell = "alive"
    /\ job_list_head = NULL
    /\ heap = << >>
    /\ job = NULL
    /\ command = << >>
    /\ caller = "none"
    /\ procs = [p \in JobPids |-> FreeProc]
    /\ tty_pgrp = shell_pid
    /\ launches = 0
    /\ out = << >>

\* main reads a line of JobLines and execute_job launches it, no process of
\* an earlier job being left
launch_job ==
    /\ launches < MaxLaunches
    /\ job_list_head = NULL
    /\ \A p \in JobPids : ~Live(p)
    /\ \E line \in JobLines, pgid \in Pids :
          LET parsed == process_input(parse_command(line))
              j == launches + 1
              num == IF parsed.background # 0
                     THEN find_most_recent_job_num(job_list_head, heap) + 1
                     ELSE FG_JOB_NUM
              rec == [pgid |-> pgid, command |-> line, job_number |-> num,
                      background |-> parsed.background, status |-> "RUNNING",
                      first_process |-> parsed.first_process,
                      second_process |-> parsed.second_process, next |-> NULL]
              a == add_job(job_list_head, heap @@ (j :> rec), j)
          IN  /\ parsed.status = SUCCESS
              /\ ReadLine(line)
              /\ procs' = [procs EXCEPT ![pgid] = JobForked(j, parsed)]
              /\ launches' = j
              /\ job_list_head' = a.head
              /\ heap' = a.heap
              /\ IF parsed.background # 0
                 THEN /\ pc' = "post_drain"
                      /\ UNCHANGED <<job, caller>>
                 ELSE /\ pc' = "fg_grant"
                      /\ job' = j
                      /\ caller' = "execute_job"
    /\ out' = << >>
    /\ UNCHANGED <<shell, tty_pgrp>>

\* a process that runs the code between fork and exec, or the program
Runs(p) == procs[p].st = "run"

\* the child of execute_process after its tcsetpgrp, a grandchild after its
\* dup2: apply_file_redirects, then execvp, which replaces the image or fails
child_redirects(p) ==
    /\ EnvRuns
    /\ Runs(p)
    /\ \/ procs[p].phase = "ready" /\ ~procs[p].pipe
       \/ procs[p].phase = "wired"
    /\ LET r == apply_file_redirects(procs[p].process[1], procs[p].fd)
           q == [procs[p] EXCEPT !.fd = r.fd, !.perror = r.perror, !.opens = r.opens]
       IN  IF r.status = FILE_REDIRECTION_ERROR
           THEN procs' = [procs EXCEPT ![p] = [Ended(p, "EXIT_FAILURE") EXCEPT
                                                  !.perror = r.perror,
                                                  !.opens = r.opens]]
           ELSE \/ procs' = [procs EXCEPT ![p] = [q EXCEPT !.phase = "exec"]]
                \/ procs' = [procs EXCEPT ![p] = [Ended(p, "EXIT_FAILURE") EXCEPT
                                                     !.perror = r.perror,
                                                     !.opens = r.opens]]
    /\ UNCHANGED <<ShellVars, tty_pgrp>>

\* the program a process exec'ed ends, with either status
program_exit(p) ==
    /\ EnvRuns
    /\ Runs(p) /\ procs[p].phase = "exec"
    /\ \E code \in {"EXIT_SUCCESS", "EXIT_FAILURE"} :
          procs' = [procs EXCEPT ![p] = Ended(p, code)]
    /\ UNCHANGED <<ShellVars, tty_pgrp>>

\* the supervisor's pipe(pipe_fd): two descriptors, or failure and exit
supervisor_pipe(p) ==
    /\ EnvRuns
    /\ Runs(p) /\ procs[p].pipe /\ procs[p].phase = "ready"
    /\ \/ LET r == LowestFree(procs[p].fd)
              f1 == [procs[p].fd EXCEPT ![r] = PipeRead]
              w == LowestFree(f1)
          IN  procs' = [procs EXCEPT ![p].fd = [f1 EXCEPT ![w] = PipeWrite],
                                     ![p].phase = "piped"]
       \/ procs' = [procs EXCEPT ![p] = Ended(p, "EXIT_FAILURE")]
    /\ UNCHANGED <<ShellVars, tty_pgrp>>

\* the supervisor's first fork: the producer, or failure and exit
supervisor_fork1(p) ==
    /\ EnvRuns
    /\ Runs(p) /\ procs[p].phase = "piped"
    /\ \/ /\ ~Live(ProducerPid)
          /\ procs' = [procs EXCEPT ![ProducerPid] = GrandForked(p, procs[p].first_process),
                                    ![p].phase = "forked1"]
       \/ procs' = [procs EXCEPT ![p] = Ended(p, "EXIT_FAILURE")]
    /\ UNCHANGED <<ShellVars, tty_pgrp>>

\* the supervisor's second fork: the consumer, or failure and exit
supervisor_fork2(p) ==
    /\ EnvRuns
    /\ Runs(p) /\ procs[p].phase = "forked1"
    /\ \/ /\ ~Live(ConsumerPid)
          /\ procs' = [procs EXCEPT ![ConsumerPid] = GrandForked(p, procs[p].second_process),
                                    ![p].phase = "forked2"]
       \/ procs' = [procs EXCEPT ![p] = Ended(p, "EXIT_FAILURE")]
    /\ UNCHANGED <<ShellVars, tty_pgrp>>

\* the descriptors of the pipe in a table
PipeFds(fd, end) == {n \in DOMAIN fd : fd[n] = end}

\* close every descriptor in ns
RECURSIVE CloseAll(_, _)
CloseAll(fd, ns) ==
    IF ns = {} THEN fd
    ELSE LET n == CHOOSE x \in ns : TRUE IN CloseAll(close(fd, n), ns \ {n})

\* a supervisor that goes on to wait with both pipe descriptors open
supervisor_keeps_pipe(p) ==
    /\ EnvRuns
    /\ Runs(p) /\ procs[p].phase = "forked2"
    /\ procs' = [procs EXCEPT ![p].phase = "wait1"]
    /\ UNCHANGED <<ShellVars, tty_pgrp>>

\* the supervisor's close(pipe_fd[0]); close(pipe_fd[1]) before it waits
supervisor_close(p) ==
    /\ EnvRuns
    /\ Runs(p) /\ procs[p].phase = "forked2"
    /\ procs' = [procs EXCEPT
                   ![p].fd = CloseAll(procs[p].fd, PipeFds(procs[p].fd, PipeRead)
                                                  \cup PipeFds(procs[p].fd, PipeWrite)),
                   ![p].phase = "wait1"]
    /\ UNCHANGED <<ShellVars, tty_pgrp>>

\* waitpid(pid1, NULL, 0) returns when the producer has terminated
supervisor_wait1(p) ==
    /\ EnvRuns
    /\ Runs(p) /\ procs[p].phase = "wait1"
    /\ procs[ProducerPid].st = "zombie" /\ procs[ProducerPid].parent = p
    /\ procs' = [procs EXCEPT ![ProducerPid] = FreeProc, ![p].phase = "wait2"]
    /\ UNCHANGED <<ShellVars, tty_pgrp>>

\* a supervisor that ends once the producer has, the consumer unwaited
supervisor_leaves_consumer(p) ==
    /\ EnvRuns
    /\ Runs(p) /\ procs[p].phase = "wait2"
    /\ procs' = [procs EXCEPT ![p] = Ended(p, "EXIT_SUCCESS")]
    /\ UNCHANGED <<ShellVars, tty_pgrp>>

\* waitpid(pid2, NULL, 0) returns when the consumer has terminated, and the
\* supervisor ends with exit(EXIT_SUCCESS)
supervisor_wait2(p) ==
    /\ EnvRuns
    /\ Runs(p) /\ procs[p].phase = "wait2"
    /\ procs[ConsumerPid].st = "zombie" /\ procs[ConsumerPid].parent = p
    /\ procs' = [procs EXCEPT ![ConsumerPid] = FreeProc,
                              ![p] = Ended(p, "EXIT_SUCCESS")]
    /\ UNCHANGED <<ShellVars, tty_pgrp>>

\* the producer's wiring without its last close(pipe_fd[1])
producer_wire_keeps_write_end ==
    /\ EnvRuns
    /\ Runs(ProducerPid) /\ procs[ProducerPid].phase = "born"
    /\ LET fd == procs[ProducerPid].fd
           rd == CHOOSE n \in PipeFds(fd, PipeRead) : TRUE
           wr == CHOOSE n \in PipeFds(fd, PipeWrite) : TRUE
       IN  procs' = [procs EXCEPT
                       ![ProducerPid].fd = dup2(close(fd, rd), wr, STDOUT_FILENO),
                       ![ProducerPid].phase = "wired"]
    /\ UNCHANGED <<ShellVars, tty_pgrp>>

\* the producer's close(pipe_fd[0]); dup2(pipe_fd[1], STDOUT_FILENO);
\* close(pipe_fd[1])
producer_wire ==
    /\ EnvRuns
    /\ Runs(ProducerPid) /\ procs[ProducerPid].phase = "born"
    /\ LET fd == procs[ProducerPid].fd
           rd == CHOOSE n \in PipeFds(fd, PipeRead) : TRUE
           wr == CHOOSE n \in PipeFds(fd, PipeWrite) : TRUE
       IN  procs' = [procs EXCEPT
                       ![ProducerPid].fd = close(dup2(close(fd, rd), wr, STDOUT_FILENO), wr),
                       ![ProducerPid].phase = "wired"]
    /\ UNCHANGED <<ShellVars, tty_pgrp>>

\* the consumer's close(pipe_fd[1]); dup2(pipe_fd[0], STDIN_FILENO);
\* close(pipe_fd[0])
consumer_wire ==
    /\ EnvRuns
    /\ Runs(ConsumerPid) /\ procs[ConsumerPid].phase = "born"
    /\ LET fd == procs[ConsumerPid].fd
           rd == CHOOSE n \in PipeFds(fd, PipeRead) : TRUE
           wr == CHOOSE n \in PipeFds(fd, PipeWrite) : TRUE
       IN  procs' = [procs EXCEPT
                       ![ConsumerPid].fd = close(dup2(close(fd, wr), rd, STDIN_FILENO), rd),
                       ![ConsumerPid].phase = "wired"]
    /\ UNCHANGED <<ShellVars, tty_pgrp>>

\* a grandchild whose supervisor is gone is reaped by init
init_reaps(p) ==
    /\ EnvRuns
    /\ procs[p].st = "zombie"
    /\ procs[procs[p].parent].st # "run" /\ procs[procs[p].parent].st # "stop"
    /\ procs' = [procs EXCEPT ![p] = FreeProc]
    /\ UNCHANGED <<ShellVars, tty_pgrp>>

\* Ctrl-C: SIGINT to every running process of the terminal's foreground
\* group; child, supervisor and grandchildren all have SIG_DFL for it once
\* past their signal() calls, and the shell ignores it
job_ctrl_c ==
    /\ EnvRuns
    /\ LET reached == {p \in JobPids : /\ Runs(p) /\ procs[p].pgrp = tty_pgrp
                                       /\ ChildDisposition(p, "SIGINT") = "SIG_DFL"}
       IN  /\ reached # {}
           /\ procs' = [p \in JobPids |-> IF p \in reached THEN Ended(p, "SIGINT")
                                          ELSE procs[p]]
    /\ UNCHANGED <<ShellVars, tty_pgrp>>

JobShellStep ==
    \/ update_job_table_statuses
    \/ main_prompt
    \/ main_empty_line
    \/ launch_job
    \/ main_report
    \/ execute_in_foreground_grant
    \/ execute_in_foreground

JobProgramStep ==
    \/ \E p \in Pids : child_setpgid(p)
    \/ \E p \in Pids : child_tcsetpgrp(p)
    \/ \E p \in JobPids : child_redirects(p)
    \/ \E p \in JobPids : program_exit(p)
    \/ \E p \in Pids : supervisor_pipe(p)
    \/ \E p \in Pids : supervisor_fork1(p)
    \/ \E p \in Pids : supervisor_fork2(p)
    \/ \E p \in Pids : supervisor_close(p)
    \/ \E p \in Pids : supervisor_wait1(p)
    \/ \E p \in Pids : supervisor_wait2(p)
    \/ producer_wire
    \/ consumer_wire
    \/ \E p \in GrandPids : init_reaps(p)

JobNext == JobShellStep \/ JobProgramStep \/ job_ctrl_c

JobSpec == JobInit /\ [][JobNext]_vars

\* ------------------------------------------------- claims on JobSpec
\* the live supervisors: children of the shell launched for a pipeline
Supervisors == {p \in Pids : Live(p) /\ procs[p].pipe}

Wired(g) == Live(g) => (procs[g].st = "zombie" \/ procs[g].phase \in {"wired", "exec"})

\* the descriptors of process q that refer to the given end of the pipe
Holds(q, end) == IF Live(q) THEN PipeFds(procs[q].fd, end) ELSE {}

\* C17: once the supervisor has closed its pipe descriptors and both
\* grandchildren have done their close, dup2, close, the write end of the
\* pipe is open nowhere but as descriptor 1 of the producer and the read end
\* nowhere but as descriptor 0 of the consumer (the shell never had either:
\* the pipe is made after the shell's fork); so when the producer has
\* terminated no process has the write end open and a read on the pipe
\* returns end of file
C17_PipeEndsOnlyWhereUsed ==
    \A p \in Supervisors :
       (procs[p].phase \in {"wait1", "wait2"} /\ Wired(ProducerPid) /\ Wired(ConsumerPid)) =>
          /\ \A q \in JobPids :
                /\ Holds(q, PipeWrite) \subseteq
                      (IF q = ProducerPid THEN {STDOUT_FILENO} ELSE {})
                /\ Holds(q, PipeRead) \subseteq
                      (IF q = ConsumerPid THEN {STDIN_FILENO} ELSE {})
          /\ (~Live(ProducerPid) \/ procs[ProducerPid].st = "zombie") =>
                \A q \in JobPids : Holds(q, PipeWrite) = {}

\* the producer has terminated and been reaped; the consumer's program
\* still runs with the read end as its descriptor 0, no process holding the
\* write end
C17_ConsumerAtEndOfFile ==
    \E p \in Supervisors :
       /\ procs[p].phase = "wait2" /\ Runs(p)
       /\ ~Live(ProducerPid)
       /\ Runs(ConsumerPid) /\ procs[ConsumerPid].phase = "exec"
       /\ Holds(ConsumerPid, PipeRead) = {STDIN_FILENO}
       /\ \A q \in JobPids : Holds(q, PipeWrite) = {}

\* the steps the shell takes without waiting for the user: drains, the
\* return to the prompt, print-and-prune, the foreground grant and wait
ShellRuns ==
    \/ update_job_table_statuses
    \/ main_prompt
    \/ main_report
    \/ execute_in_foreground_grant
    \/ execute_in_foreground

\* JobSpec under a scheduler that lets every process that can run do so in
\* the end: the shell when it is not waiting for a line, and its children and
\* grandchildren, whose programs all end.  Nothing makes the user type.
FairJobSpec == JobSpec /\ WF_vars(ShellRuns) /\ WF_vars(JobProgramStep)

\* a foreground job of the table one of whose processes redirects its input
\* from the file that cannot be opened
MissingInput(process) ==
    process # << >> /\ process[1].redirect_input_filename = <<"x">>

BadInputForeground(a) ==
    /\ a \in InTable
    /\ heap[a].background = 0
    /\ MissingInput(heap[a].first_process) \/ MissingInput(heap[a].second_process)

\* C18: a foreground job with an input redirection from a missing file, in
\* its one process or on either side of its pipeline, leads to the shell
\* reading the prompt with that job gone from the table, which only the
\* pruning of a Done job brings about
C18_MissingInputJobEndsAtPrompt ==
    \A a \in Addrs :
       BadInputForeground(a) ~> (pc = "prompt" /\ a \notin InTable)

\* C19: the shell process ends only when readline reports end of input, and
\* then with exit status 0; in no other step does it end, and it never stops
\* taking steps in a loop that does not come back to the prompt
C19_ShellEndsOnlyAtEndOfInput ==
    [][ /\ (shell = "alive" /\ shell' # "alive") =>
              (pc = "prompt" /\ shell' = "exit_success")
        /\ pc' # "hang"
      ]_vars

\* ===================================================== parsing one line
\* main's readline, parse_command and process_input on every line of a few
\* tokens, one line per behaviour.

\* the most tokens in a line
MaxTokens == 5

\* the tokens of the lines: two words and the five special tokens
ParseTokens ==
    {<<"a">>, <<"f">>, INPUT_REDIRECT, OUTPUT_REDIRECT, ERROR_REDIRECT, PIPE,
     SEND_TO_BACKGROUND}

\* the line that spells the tokens, a blank between two of them
RECURSIVE Join(_)
Join(toks) ==
    IF toks = << >> THEN << >>
    ELSE IF Len(toks) = 1 THEN toks[1]
    ELSE toks[1] \o <<" ">> \o Join(Tail(toks))

\* a line without a token never reaches process_input (main, line 160)
ParseLines ==
    {Join(toks) : toks \in UNION {[1 .. k -> ParseTokens] : k \in 1 .. MaxTokens}}

\* the shell at its prompt, the user about to enter one of the lines
ParseInit ==
    /\ pc = "prompt"
    /\ shell = "alive"
    /\ job_list_head = NULL
    /\ heap = << >>
    /\ job = NULL
    /\ command \in ParseLines
    /\ caller = "none"
    /\ procs = [p \in Pids |-> FreeProc]
    /\ tty_pgrp = shell_pid
    /\ launches = 0
    /\ out = << >>

\* main, lines 181-195: a job is allocated and process_input fills it from
\* the tokens; on failure the job is freed again
main_process_input ==
    /\ pc = "prompt"
    /\ LET parsed == process_input(parse_command(command))
           rec == [pgid |-> 0, command |-> command, job_number |-> 0,
                   background |-> parsed.background, status |-> "RUNNING",
                   first_process |-> parsed.first_process,
                   second_process |-> parsed.second_process, next |-> NULL]
       IN  IF parsed.status = SUCCESS
           THEN /\ pc' = "parsed"
                /\ heap' = (1 :> rec)
                /\ job' = 1
           ELSE /\ pc' = "parse_error"
                /\ UNCHANGED <<heap, job>>
    /\ UNCHANGED <<shell, job_list_head, command, caller, procs, tty_pgrp,
                   launches, out>>

\* update_job_command_str(job, 1) on the job just filled, or on the job
\* whose text the fg mode has just handled
command_str_bg ==
    /\ pc \in {"parsed", "fg"}
    /\ \E text \in update_job_command_str(heap[job].command, 1) :
          heap' = [heap EXCEPT ![job].command = text]
    /\ pc' = IF pc = "parsed" THEN "bg" ELSE "fg_bg"
    /\ UNCHANGED <<shell, job_list_head, job, command, caller, procs, tty_pgrp,
                   launches, out>>

\* update_job_command_str(job, 0) on the job just filled, or on the job
\* whose text the bg mode has just handled
command_str_fg ==
    /\ pc \in {"parsed", "bg"}
    /\ \E text \in update_job_command_str(heap[job].command, 0) :
          heap' = [heap EXCEPT ![job].command = text]
    /\ pc' = IF pc = "parsed" THEN "fg" ELSE "bg_fg"
    /\ UNCHANGED <<shell, job_list_head, job, command, caller, procs, tty_pgrp,
                   launches, out>>

ParseNext == main_process_input \/ command_str_bg \/ command_str_fg

ParseSpec == ParseInit /\ [][ParseNext]_vars

\* a token that is a word: none of <, >, 2>, | and &
IsWord(t) ==
    t \notin {INPUT_REDIRECT, OUTPUT_REDIRECT, ERROR_REDIRECT, PIPE, SEND_TO_BACKGROUND}

\* C20: when process_input succeeds the job has a first process and at most
\* a second one, and argv[0] of each is a word; and a job has a second
\* process only when a word follows a | of its line
C20_AcceptedJobHasCommandWords ==
    pc = "parsed" =>
       LET tok == parse_command(command)
       IN  /\ heap[job].first_process # << >>
           /\ \A process \in {heap[job].first_process, heap[job].second_process} :
                 process # << >> =>
                    /\ 0 \in DOMAIN process[1].argv
                    /\ IsWord(process[1].argv[0])
           /\ heap[job].second_process # << >> =>
                 \E i \in 1 .. Len(tok) :
                    /\ tok[i] = PIPE
                    /\ \E k \in (i + 1) .. Len(tok) : IsWord(tok[k])

\* token i of the line is the filename operand of a redirection: it follows
\* a <, > or 2> that is not an operand itself
RECURSIVE IsOperand(_, _)
IsOperand(tok, i) ==
    /\ i > 1
    /\ tok[i - 1] \in {INPUT_REDIRECT, OUTPUT_REDIRECT, ERROR_REDIRECT}
    /\ ~IsOperand(tok, i - 1)

\* the places of the | tokens that separate pipeline stages
StageBreaks(tok) == {i \in 1 .. Len(tok) : tok[i] = PIPE /\ ~IsOperand(tok, i)}

\* C21: a line accepted by process_input has at most one | between stages,
\* that is at most two pipeline stages, and the first process of the job is
\* the first stage typed: its argv[0] is the first token of the line
C21_NoThirdStageAccepted ==
    pc = "parsed" =>
       LET tok == parse_command(command)
       IN  /\ Cardinality(StageBreaks(tok)) <= 1
           /\ heap[job].first_process # << >>
           /\ 0 \in DOMAIN heap[job].first_process[1].argv
           /\ heap[job].first_process[1].argv[0] = tok[1]

\* C22: a line accepted by process_input has no & token before its last
\* token and is not the token & alone, and the job's background flag is set
\* only when the last token is &
C22_AmpersandOnlyLast ==
    pc = "parsed" =>
       LET tok == parse_command(command)
       IN  /\ \A i \in 1 .. Len(tok) - 1 : tok[i] # SEND_TO_BACKGROUND
           /\ tok # <<SEND_TO_BACKGROUND>>
           /\ heap[job].background # 0 => tok[Len(tok)] = SEND_TO_BACKGROUND

\* the ordinary words among tokens lo .. hi, in order: every token but the
\* special ones and the filename operands
RECURSIVE StageWords(_, _, _)
StageWords(tok, lo, hi) ==
    IF lo > hi THEN << >>
    ELSE (IF IsWord(tok[lo]) /\ ~IsOperand(tok, lo) THEN <<tok[lo]>> ELSE << >>)
            \o StageWords(tok, lo + 1, hi)

\* argv holds exactly the words, at the indices 0, 1, ... with no gap
ArgvIs(process, words) ==
    /\ process # << >>
    /\ DOMAIN process[1].argv = 0 .. (Len(words) - 1)
    /\ \A k \in DOMAIN process[1].argv : process[1].argv[k] = words[k + 1]

\* C23: in an accepted line of one or two stages the argv of each process
\* is the sequence of the ordinary words of its stage, stored from index 0
\* without a gap, the words typed after a redirection included
C23_ArgvIsTheWordsInOrder ==
    (pc = "parsed" /\ Cardinality(StageBreaks(parse_command(command))) <= 1) =>
       LET tok == parse_command(command)
           brk == StageBreaks(tok)
       IN  IF brk = {}
           THEN /\ ArgvIs(heap[job].first_process, StageWords(tok, 1, Len(tok)))
                /\ heap[job].second_process = << >>
           ELSE LET b == CHOOSE i \in brk : TRUE
                IN  /\ ArgvIs(heap[job].first_process, StageWords(tok, 1, b - 1))
                    /\ ArgvIs(heap[job].second_process, StageWords(tok, b + 1, Len(tok)))


\* ------------------------------------- a table with a stale foreground job
\* The shell at its prompt in a state Spec reaches with its two launches: a
\* foreground command whose child has ended is still Running in the table,
\* because its end was booked on a Done job of the same pgid that has since
\* been pruned.  The count of launches starts again from this job.
StaleInit ==
    /\ pc = "prompt"
    /\ shell = "alive"
    /\ job_list_head = 1
    /\ \E pgid \in Pids :
          LET parsed == process_input(parse_command(<<"a">>))
          IN  heap = (1 :> [pgid |-> pgid, command |-> <<"a">>,
                            job_number |-> FG_JOB_NUM,
                            background |-> parsed.background, status |-> "RUNNING",
                            first_process |-> parsed.first_process,
                            second_process |-> parsed.second_process,
                            next |-> NULL])
    /\ job = 1
    /\ command = << >>
    /\ caller = "execute_job"
    /\ procs = [p \in Pids |-> FreeProc]
    /\ tty_pgrp = shell_pid
    /\ launches = 1
    /\ out = << >>

StaleSpec == StaleInit /\ [][Next]_vars

\* C24: a step of main in which process_input fails adds no job and forks no
\* process: the table after it is the table before it without its Done
\* jobs, in the same order and with the same fields, and the shell is at the
\* top of its loop on the way to the next prompt
C24_ParseErrorOnlyPrunes ==
    [][ main_parse_error =>
          LET w == Walk(job_list_head, heap)
              kept == SelectSeq(w, LAMBDA a : heap[a].status # "DONE")
          IN  /\ procs' = procs
              /\ launches' = launches
              /\ Walk(job_list_head', heap') = kept
              /\ DOMAIN heap' \subseteq DOMAIN heap
              /\ \A a \in Range(kept) :
                    [heap'[a] EXCEPT !.next = 0] = [heap[a] EXCEPT !.next = 0]
              /\ ~Cyclic(job_list_head', heap')
              /\ pc' = "main_drain" ]_vars


\* the job fg or bg selects in this state, NULL when it finds none
ContinuedJob ==
    LET w == Table
        c == IF command = FOREGROUND
             THEN {i \in 1 .. Len(w) : heap[w[i]].status # "DONE"}
             ELSE {i \in 1 .. Len(w) :
                     heap[w[i]].status = "STOPPED" /\ heap[w[i]].background # 0}
    IN  IF c = {} THEN NULL ELSE w[MaxOf(c)]

\* C25: in a step of fg or bg SIGCONT reaches no process but the stopped
\* members of the process group whose id is the selected job's pgid, whatever
\* the job's number; and it reaches all of them when the built-in gets as far
\* as its kill, which it does on every table whose list ends
C25_SigcontGoesToTheJobsPgid ==
    [][ (FgStep \/ BgStep) =>
          \A p \in Pids :
             LET target == /\ ContinuedJob # NULL
                           /\ Live(p)
                           /\ procs[p].pgrp = heap[ContinuedJob].pgid
                           /\ procs[p].st = "stop"
             IN  /\ procs'[p] # procs[p] => (target /\ procs'[p].st = "run")
                 /\ (target /\ ~Cyclic(job_list_head, heap)) => procs'[p].st = "run"
      ]_vars

\* bg has just resumed a job whose number differs from its pgid: the process
\* of group pgid runs again
C25_ResumedGroupIsNotTheNumber ==
    /\ pc = "report"
    /\ Len(out) = 1
    /\ out[1].ev = "print" /\ out[1].fmt = "notify"
    /\ heap[out[1].job].status = "RUNNING"
    /\ heap[out[1].job].job_number # heap[out[1].job].pgid
    /\ \E p \in Pids : Live(p) /\ procs[p].pgrp = heap[out[1].job].pgid
                         /\ procs[p].st = "run"


\* the text ends in a blank and an ampersand
HasBgSuffix(text) ==
    Len(text) >= 2 /\ text[Len(text)] = "&" /\ text[Len(text) - 1] = " "

\* C26: for a command text that does not end in " &", the bg mode of
\* update_job_command_str followed by its fg mode leaves the text as it was,
\* and so does the fg mode alone; for a text that ends in " &" the bg mode
\* leaves it as it was
C26_BgThenFgRestoresTheText ==
    /\ (pc \in {"bg_fg", "fg"} /\ ~HasBgSuffix(command)) => heap[job].command = command
    /\ (pc = "bg" /\ HasBgSuffix(command)) => heap[job].command = command


\* the shell is in update_job_table_statuses
InDrain == pc \in {"main_drain", "custom_drain", "post_drain"} /\ shell = "alive"

C28_EmptyLineOnlyReportsAndPrunes ==
    [][ main_empty_line =>
          LET done == {a \in InTable : heap[a].status = "DONE"}
              gone == DOMAIN heap \ DOMAIN heap'
          IN  /\ procs' = procs
              /\ tty_pgrp' = tty_pgrp
              /\ launches' = launches
              /\ shell' = shell
              /\ \A i \in DOMAIN out' : out'[i].job \in done
              /\ {out'[i].job : i \in {k \in DOMAIN out' : out'[k].ev = "free"}} = gone
              /\ gone \subseteq done
              /\ DOMAIN heap' \subseteq DOMAIN heap
              /\ Walk(job_list_head', heap') =
                    SelectSeq(Table, LAMBDA a : a \notin gone)
              /\ \A a \in InTable \ gone :
                    [heap'[a] EXCEPT !.next = NULL] = [heap[a] EXCEPT !.next = NULL]
              /\ ~Cyclic(job_list_head, heap) => (gone = done /\ pc' = "main_drain")
      ]_vars

\* an empty line has just been read over a table that held a Done background
\* job and a live job: the Done job was announced and freed, the live one stays
C28_EmptyLinePrunedADoneJob ==
    /\ pc = "main_drain"
    /\ Len(out) >= 2
    /\ out[1].ev = "print" /\ out[1].fmt = "table" /\ out[1].status = "DONE"
    /\ \E i \in DOMAIN out : out[i].ev = "free" /\ out[i].job = out[1].job
    /\ \E a \in InTable : heap[a].status # "DONE"


\* the step in which update_job_status is called for child p, by a drain or
\* by the foreground wait
ReconcileOf(p) ==
    /\ pc \in {"main_drain", "custom_drain", "post_drain", "fg_wait"}
    /\ shell = "alive"
    /\ p \in Waitable
    /\ procs' = Reaped(p)

\* C29: update_job_status with a pid of 0 or -1 returns 0 and leaves the
\* table as it is; called, where a drain or the foreground wait calls it
\* on a table whose list ends, for a pid that is the pgid of no job of the
\* table it returns 1 and leaves the table as it is, and the loop that
\* called it goes on;
\* called for a terminated child whose pid is a job's pgid it sets the status
\* of the first such job of the table to Done and changes nothing else: no
\* other field of that job, no other job, not the order of the table
C29_ReconcileFrame ==
    [][ /\ \A pid \in {-1, 0}, status \in {Exited, Stopped("SIGTSTP")} :
              update_job_status(job_list_head, heap, status, pid)
                 = [head |-> job_list_head, heap |-> heap, ret |-> 0, hang |-> FALSE]
        /\ \A pid \in Pids, status \in {Exited, Stopped("SIGTSTP")} :
              ( /\ pc \in {"main_drain", "custom_drain", "post_drain", "fg_wait"}
                /\ ~Cyclic(job_list_head, heap)
                /\ \A a \in InTable : heap[a].pgid # pid ) =>
                 update_job_status(job_list_head, heap, status, pid)
                    = [head |-> job_list_head, heap |-> heap, ret |-> 1, hang |-> FALSE]
        /\ \A p \in Pids :
              ReconcileOf(p) =>
                 LET hits == {i \in 1 .. Len(Table) : heap[Table[i]].pgid = p}
                 IN  /\ hits = {} =>
                         /\ job_list_head' = job_list_head
                         /\ heap' = heap
                         /\ pc # "fg_wait" => pc' = pc
                         /\ (pc = "fg_wait" /\ heap[job].status = "RUNNING") => pc' = pc
                     /\ (hits # {} /\ procs[p].st = "zombie") =>
                         LET a == Table[CHOOSE i \in hits : \A k \in hits : i <= k]
                         IN  /\ job_list_head' = job_list_head
                             /\ heap' = [heap EXCEPT ![a].status = "DONE"]
      ]_vars

\* a drain has marked one of two jobs Done: its child is reaped, the other
\* job is as it was, Running with its child alive
C29_OneOfTwoJobsMarkedDone ==
    /\ pc \in {"main_drain", "custom_drain", "post_drain"}
    /\ \E a, b \in InTable :
          /\ a # b
          /\ heap[a].status = "DONE"
          /\ heap[a].pgid # heap[b].pgid
          /\ ~Live(heap[a].pgid)
          /\ heap[b].status = "RUNNING"
          /\ Live(heap[b].pgid)


\* a redirection target of the process that cannot be opened
MissingTarget(process) ==
    <<"x">> \in {process.redirect_input_filename, process.redirect_output_filename,
                 process.redirect_error_filename}

C31_InputDiagnosticOnInheritedStderr ==
    \A p \in JobPids :
       (Live(p) /\ procs[p].process # << >>) =>
          \A i \in DOMAIN procs[p].perror :
             procs[p].perror[i].filename = procs[p].process[1].redirect_input_filename
                => procs[p].perror[i].to = ShellFds[STDERR_FILENO]


\* the grandchild g has applied its redirections and runs its program
Redirected(g) == Live(g) /\ Runs(g) /\ procs[g].phase = "exec"

\* C32: a grandchild applies its file redirections only after its close,
\* dup2, close on the pipe; a producer with an output redirection then has
\* the file as descriptor 1, a consumer with an input redirection has the
\* file as descriptor 0, and neither holds any descriptor of the pipe end it
\* was wired to
C32_WiringPrecedesRedirections ==
    [][ /\ \A g \in GrandPids :
              (Live(g)' /\ procs'[g].phase = "exec" /\ procs[g].phase # "exec")
                 => procs[g].phase = "wired"
        /\ (Redirected(ProducerPid)'
              /\ procs'[ProducerPid].process[1].redirect_output_filename # << >>) =>
              /\ procs'[ProducerPid].fd[STDOUT_FILENO] =
                    File(procs'[ProducerPid].process[1].redirect_output_filename)
              /\ PipeFds(procs'[ProducerPid].fd, PipeWrite) = {}
              /\ PipeFds(procs'[ProducerPid].fd, PipeRead) = {}
        /\ (Redirected(ConsumerPid)'
              /\ procs'[ConsumerPid].process[1].redirect_input_filename # << >>) =>
              /\ procs'[ConsumerPid].fd[STDIN_FILENO] =
                    File(procs'[ConsumerPid].process[1].redirect_input_filename)
              /\ PipeFds(procs'[ConsumerPid].fd, PipeRead) = {}
              /\ PipeFds(procs'[ConsumerPid].fd, PipeWrite) = {} ]_vars

\* both programs of a > f | b < g run: the producer writes to f, the
\* consumer reads from g, the pipe is open in neither
C32_BothSidesOnTheirFiles ==
    /\ Redirected(ProducerPid) /\ Redirected(ConsumerPid)
    /\ procs[ProducerPid].fd[STDOUT_FILENO] = File(<<"f">>)
    /\ procs[ConsumerPid].fd[STDIN_FILENO] = File(<<"g">>)
    /\ PipeFds(procs[ProducerPid].fd, PipeWrite) = {}
    /\ PipeFds(procs[ConsumerPid].fd, PipeRead) = {}


\* C33: whenever main is at the prompt, every job of the table whose status
\* is Stopped has its background flag set and a positive job number
C33_StoppedJobsAreBackgroundJobs ==
    (pc = "prompt" /\ ~Cyclic(job_list_head, heap)) =>
       \A a \in InTable :
          heap[a].status = "STOPPED" =>
             (heap[a].background = 1 /\ heap[a].job_number > 0)


\* the foreground wait entered by fg reaps a stop by SIGTSTP or SIGSTOP of
\* the process whose pid is the pgid of the job it waits for
FgJobStopReaped(p) ==
    /\ pc = "fg_wait" /\ caller = "execute_fg"
    /\ p = heap[job].pgid
    /\ procs[p].st = "stop" /\ procs[p].sig \in {"SIGTSTP", "SIGSTOP"}
    /\ procs' = Reaped(p)

\* C34: a job moved to the foreground by fg and then stopped by SIGTSTP or
\* SIGSTOP becomes a background Stopped job with the job number and the
\* table position it had; no job of the table is removed and re-inserted
C34_StoppedAfterFgKeepsNumberAndPlace ==
    [][\A p \in Pids : FgJobStopReaped(p) =>
          /\ heap'[job].status = "STOPPED"
          /\ heap'[job].background = 1
          /\ heap'[job].job_number = heap[job].job_number
          /\ heap[job].job_number > 0
          /\ job_list_head' = job_list_head
          /\ \A a \in DOMAIN heap : heap'[a].next = heap[a].next]_vars


\* C35: along the table, the job numbers of the jobs whose background flag
\* is set are strictly increasing
C35_BackgroundNumbersIncrease ==
    ~Cyclic(job_list_head, heap) =>
       \A i, k \in DOMAIN Table :
          (i < k /\ heap[Table[i]].background = 1 /\ heap[Table[k]].background = 1)
             => heap[Table[i]].job_number < heap[Table[k]].job_number


\* C36: the job table is a finite sequence in which every job appears once:
\* the linked list is never cyclic and no job is met twice on the walk from
\* job_list_head
C36_TableIsAFiniteSequence ==
    /\ ~Cyclic(job_list_head, heap)
    /\ \A i, k \in DOMAIN Table : i # k => Table[i] # Table[k]


\* the foreground wait returns to its caller
ForegroundWaitReturns == pc = "fg_wait" /\ pc' \in {"post_drain", "report"}

\* C37: a foreground wait reconciles every notification it reaps, it goes on
\* while its target job is Running and waitpid has a child to report, and
\* when it returns the target job is marked Stopped or Done: it never
\* returns leaving a target that has terminated marked Running
C37_ForegroundWaitEndsWithTargetSettled ==
    [][execute_in_foreground =>
          /\ (procs' # procs /\ pc' # "hang") =>
                \E p \in Waitable :
                   /\ procs' = Reaped(p)
                   /\ heap' = update_job_status(job_list_head, heap, WaitStatus(p), p).heap
          /\ (pc' = "fg_wait") => (procs' # procs /\ heap'[job].status = "RUNNING")
          /\ ForegroundWaitReturns =>
                /\ (heap'[job].status # "RUNNING" \/ procs' = procs)
                /\ heap'[job].status \in {"STOPPED", "DONE"}
      ]_vars


\* C38: while the shell runs, a job leaves the table only when it is Done
\* and is freed by the pruning; a job that is Running or Stopped stays; and
\* a job becomes Done only in a step in which waitpid reaps the terminated
\* process whose pid is the job's pgid (a step into "hang" is a handler that
\* does not return: it has no table after it)
C38_OnlyDoneJobsLeaveTheTable ==
    [][pc' \notin {"exit", "hang"} =>
          /\ \A a \in InTable :
                a \notin InTable' => (heap[a].status = "DONE" /\ a \notin DOMAIN heap')
          /\ \A a \in InTable :
                heap[a].status \in {"RUNNING", "STOPPED"} => a \in InTable'
          /\ \A a \in DOMAIN heap \cap DOMAIN heap' :
                (heap[a].status # "DONE" /\ heap'[a].status = "DONE") =>
                   /\ heap[a].pgid \in Pids
                   /\ procs[heap[a].pgid].st = "zombie"
                   /\ procs' = Reaped(heap[a].pgid)
      ]_vars

\* the pruning has freed a Done job and left a job that is not Done in the
\* table
C38_PrunedBesideALiveJob ==
    /\ pc = "main_drain"
    /\ \E i \in DOMAIN out : out[i].ev = "free"
    /\ \E a \in InTable : heap[a].status \in {"RUNNING", "STOPPED"}


\* the redirections configured for a process, in the order
\* apply_file_redirects takes them: error, input, output
Configured(process) ==
    SelectSeq(<<process.redirect_error_filename, process.redirect_input_filename,
                process.redirect_output_filename>>,
              LAMBDA f : f # << >>)

\* C39: apply_file_redirects attempts every configured redirection, in the
\* order error, input, output, also after an open has failed: every
\* configured file that can be opened is opened (created or truncated), every
\* one that cannot has its diagnostic, and the failure reaches the caller,
\* which ends the process with EXIT_FAILURE, after the last of them
C39_EveryRedirectionIsAttempted ==
    [][\A p \in JobPids :
          child_redirects(p) =>
             LET conf == Configured(procs[p].process[1])
                 failed == SelectSeq(conf, LAMBDA f : ~CanOpen(f))
             IN  /\ procs'[p].opens = SelectSeq(conf, LAMBDA f : CanOpen(f))
                 /\ [i \in DOMAIN procs'[p].perror |-> procs'[p].perror[i].filename]
                       = failed
                 /\ failed # << >> =>
                       (procs'[p].st = "zombie" /\ procs'[p].exit = "EXIT_FAILURE")
      ]_vars

\* the child of a < x > f has ended: x could not be opened, f was opened
C39_OutputCreatedAfterFailedInput ==
    \E p \in JobPids :
       /\ procs[p].st = "zombie" /\ procs[p].exit = "EXIT_FAILURE"
       /\ procs[p].process # << >>
       /\ procs[p].process[1].redirect_input_filename = <<"x">>
       /\ procs[p].process[1].redirect_output_filename = <<"f">>
       /\ procs[p].perror # << >> /\ procs[p].perror[1].filename = <<"x">>
       /\ procs[p].opens = << <<"f">> >>


\* fg or bg has selected sel and kill(-pgid, SIGCONT) fails: the group has
\* no process
SigcontFailsFor(sel) ==
    /\ ~Cyclic(job_list_head, heap)
    /\ \/ execute_fg /\ sel = find_next_job_to_fg(job_list_head, heap)
       \/ execute_bg /\ sel = find_next_job_to_bg(job_list_head, heap)
    /\ KillContFails(sigcont_group(heap[sel]))

\* C40: when SIGCONT cannot be delivered during fg or bg, the selected job
\* is left Stopped with its background flag set, no foreground wait is
\* entered and the terminal stays with the shell
C40_FailedSigcontLeavesAStoppedBackgroundJob ==
    [][\A sel \in DOMAIN heap :
          SigcontFailsFor(sel) =>
             /\ heap'[sel].status = "STOPPED"
             /\ heap'[sel].background = 1
             /\ pc' \notin {"fg_grant", "fg_wait"}
             /\ tty_pgrp' = tty_pgrp
             /\ procs' = procs
      ]_vars

=============================================================================
